---------------------------- MODULE Spec2Model ----------------------------
(***************************************************************************)
(* CPU scheduling simulator (cityhunter0831/os_cpu).                       *)
(*                                                                         *)
(* The model follows src/core/process.py, src/core/scheduler_base.py,      *)
(* src/core/sync.py, src/schedulers/basic_schedulers.py,                   *)
(* src/schedulers/advanced_schedulers.py and src/schedulers/sync_demo.py.  *)
(* A scheduler object is one                                               *)
(* record (variable sched); a handler of the source is an operator from    *)
(* scheduler record to scheduler record, and an action applies one whole   *)
(* handler.  A driver first builds a scheduler and calls run(), then       *)
(* builds a second scheduler of the same class from the same process list  *)
(* and calls execute_one_step() until it returns True.  Further            *)
(* specifications have a client call the synchronisation primitives and    *)
(* the engine's methods directly.                                          *)
(*                                                                         *)
(* Processes are referred to by their position in self.processes (Python   *)
(* object identity); the pid is a field of the process record.             *)
(***************************************************************************)
EXTENDS Integers, Sequences, FiniteSets, TLC

VARIABLES
    sched,                    \* the scheduler object under execution
    config,                   \* its class and constructor parameters
    processes_in,             \* the caller's process list (constructor argument)
    CONTEXT_SWITCH_OVERHEAD,  \* module global of scheduler_base.py
    pc,                       \* position of the driver
    run_result,               \* the scheduler after run() returned (phase 1)
    extra_calls,              \* calls of execute_one_step() made after it returned True
    manager,                  \* a SyncManager a client uses directly
    call                      \* the last call a client made on an object, with its result

vars == <<sched, config, processes_in, CONTEXT_SWITCH_OVERHEAD, pc, run_result, extra_calls,
          manager, call>>

-----------------------------------------------------------------------------
(* Bounds of the model *)

\* context-switch overhead ranges over 0..MaxOverhead
MaxOverhead == 1

\* the driver calls execute_one_step() at most MaxExtraCalls times after it
\* has returned True
MaxExtraCalls == 1

\* the driver stops calling execute_one_step() once the clock has passed
\* MaxTicks by MaxStepsPastGuard ticks, whatever the calls returned
MaxStepsPastGuard == 2

\* stands for the tick guard of the source (current_time > 10000), scaled
\* down so that a run that never completes stays finite in the model
MaxTicks == 40

StepHorizon == MaxTicks + MaxStepsPastGuard

\* a client of a semaphore gives it an initial count of at most
\* MaxSemInitial, signals it up to a count of MaxSemValue and lets at most
\* MaxSemWaiters processes queue on it
MaxSemInitial == 2
MaxSemValue == 3
MaxSemWaiters == 4

\* a client lets at most MaxMutexWaiters processes queue on the mutexes of
\* a manager, all mutexes taken together
MaxMutexWaiters == 3

(* Program constants *)

\* Python None, for optional times and optional process references
None == -1

\* float('inf')
Infinity == 1000000

\* Gantt sentinel pids
IDLE_PID == -1
CS_PID == -2

DefaultTimeSlice == 4
DefaultAgingFactor == 10
MLQ_SLICE_0 == 8
MLQ_SLICE_1 == 16

-----------------------------------------------------------------------------
(* Generic helpers *)

Min2(a, b) == IF a <= b THEN a ELSE b
Max2(a, b) == IF a >= b THEN a ELSE b

RECURSIVE SumSeq(_)
SumSeq(s) == IF s = <<>> THEN 0 ELSE Head(s) + SumSeq(Tail(s))

\* list.remove(x): removes the first element equal to x
RECURSIVE RemoveFirst(_, _)
RemoveFirst(s, x) ==
    IF s = <<>> THEN <<>>
    ELSE IF Head(s) = x THEN Tail(s)
    ELSE <<Head(s)>> \o RemoveFirst(Tail(s), x)

InSeq(s, x) == \E i \in 1..Len(s) : s[i] = x

\* lexicographic order on pairs, as Python compares key tuples
LexLess(k1, k2) == k1[1] < k2[1] \/ (k1[1] = k2[1] /\ k1[2] < k2[2])

-----------------------------------------------------------------------------
(* src/core/process.py *)

ProcessStates == {"Ready", "Running", "Waiting", "Terminated", "Context Switching"}

\* Process.__init__
Process(pid, arrival_time, priority, execution_pattern, period, deadline) ==
    [ pid |-> pid,
      arrival_time |-> arrival_time,
      initial_priority |-> priority,
      priority |-> priority,
      execution_pattern |-> execution_pattern,
      period |-> period,
      deadline |-> deadline,
      absolute_deadline |-> IF deadline > 0 THEN arrival_time + deadline ELSE Infinity,
      state |-> "Ready",
      current_burst_index |-> 0,
      remaining_burst_time |-> IF execution_pattern # <<>> THEN execution_pattern[1] ELSE 0,
      start_time |-> None,
      finish_time |-> None,
      waiting_time |-> 0,
      turnaround_time |-> 0,
      response_time |-> None,
      time_in_ready_queue |-> 0,
      last_ready_time |-> arrival_time,
      total_waiting_time_for_aging |-> 0,
      queue_level |-> 0,
      time_slice_used |-> 0 ]

\* a variant of create_process_copy that hands back the caller's own object
keep_reference(process) == [object |-> process, fresh |-> FALSE]

\* create_process_copy: deepcopy gives an object with the same fields
\* (execution_pattern included) that is not the caller's object
create_process_copy(process) == [object |-> process, fresh |-> TRUE]

\* [create_process_copy(p) for p in processes]
copy_all(processes) == [k \in 1..Len(processes) |-> create_process_copy(processes[k]).object]

\* Process.get_total_burst_time: bursts at even 0-based indices
get_total_burst_time(p) ==
    SumSeq([i \in 1..((Len(p.execution_pattern) + 1) \div 2) |-> p.execution_pattern[2 * i - 1]])

is_cpu_burst(p) == p.current_burst_index % 2 = 0

is_io_burst(p) == p.current_burst_index % 2 = 1

\* Process.get_remaining_time
get_remaining_time(p) == IF is_cpu_burst(p) THEN p.remaining_burst_time ELSE 0

\* an execute that takes two time units off the burst for one tick
execute_two_units(p) == [p EXCEPT !.remaining_burst_time = @ - 2]

\* Process.execute(1), the state change (the caller checks is_cpu_burst first,
\* where the source raises ValueError)
execute(p) == [p EXCEPT !.remaining_burst_time = @ - 1]

\* the value Process.execute returns, read on the process after the decrement
burst_completed(p) == p.remaining_burst_time <= 0

\* Process.complete_current_burst
complete_current_burst(p) ==
    LET idx == p.current_burst_index + 1
    IN  IF idx < Len(p.execution_pattern)
        THEN [p EXCEPT !.current_burst_index = idx,
                       !.remaining_burst_time = p.execution_pattern[idx + 1]]
        ELSE [p EXCEPT !.current_burst_index = idx,
                       !.state = "Terminated",
                       !.remaining_burst_time = 0]

is_completed(p) == p.current_burst_index >= Len(p.execution_pattern)

\* Process.update_waiting_time
update_waiting_time(p, current_time) ==
    IF p.state = "Ready"
    THEN [p EXCEPT !.time_in_ready_queue = current_time - p.last_ready_time,
                   !.total_waiting_time_for_aging = @ + 1]
    ELSE p

\* a variant of apply_aging without the floor at 0
apply_aging_without_floor(p, aging_factor) ==
    IF p.total_waiting_time_for_aging > 0
    THEN [p EXCEPT !.priority =
              p.initial_priority - (p.total_waiting_time_for_aging \div aging_factor)]
    ELSE p

\* Process.apply_aging
apply_aging(p, aging_factor) ==
    IF p.total_waiting_time_for_aging > 0
    THEN [p EXCEPT !.priority =
              Max2(0, p.initial_priority - (p.total_waiting_time_for_aging \div aging_factor))]
    ELSE p

\* Process.reset_to_initial_priority
reset_to_initial_priority(p) ==
    [p EXCEPT !.priority = p.initial_priority, !.total_waiting_time_for_aging = 0]

-----------------------------------------------------------------------------
(* src/core/scheduler_base.py *)

\* SchedulerStats.__init__
SchedulerStats ==
    [ total_waiting_time |-> 0,
      total_turnaround_time |-> 0,
      total_response_time |-> 0,
      context_switches |-> 0,
      cpu_busy_time |-> 0,
      total_simulation_time |-> 0,
      process_count |-> 0 ]

\* BaseScheduler.__init__ together with the attributes the subclasses add
\* (execution_start, time_slice, current_time_slice, aging_factor, queues).
\* broke: the run() loop was left by break; returned: the value the last
\* execute_one_step() returned; raised: an exception aborted the handler.
\* dispatch_history is a history field, not program state: the pids in the
\* order in which they were taken from a ready queue and given the CPU.
BaseScheduler(policy, processes, time_slice, aging_factor) ==
    [ policy |-> policy,
      processes |-> processes,
      current_time |-> 0,
      ready_queue |-> <<>>,
      waiting_queue |-> <<>>,
      running_process |-> None,
      previous_process |-> None,
      terminated_processes |-> <<>>,
      in_context_switch |-> FALSE,
      context_switch_remaining |-> 0,
      context_switch_target |-> None,
      gantt_chart |-> <<>>,
      stats |-> SchedulerStats,
      event_log |-> <<>>,
      io_completion_queue |-> <<>>,
      execution_start |-> None,
      time_slice |-> time_slice,
      current_time_slice |-> 0,
      aging_factor |-> aging_factor,
      queues |-> << <<>>, <<>>, <<>> >>,
      broke |-> FALSE,
      returned |-> FALSE,
      raised |-> FALSE,
      dispatch_history |-> <<>> ]

\* BaseScheduler.log_event: the entry keeps the time stamp, a tag for the
\* message text and the (at most two) pids the text names
log_event(s, tag, a, b) ==
    [s EXCEPT !.event_log = Append(@, <<s.current_time, tag, a, b>>)]

\* BaseScheduler.add_to_gantt_chart
add_to_gantt_chart(s, pid, start, end, state) ==
    IF start < end
    THEN [s EXCEPT !.gantt_chart =
              Append(@, [pid |-> pid, start_time |-> start, end_time |-> end, state |-> state])]
    ELSE s

\* a variant of terminate_process that charges the I/O bursts to the process
\* as well: waiting_time = turnaround_time - sum(execution_pattern)
terminate_process_charging_io(s, i) ==
    LET p  == s.processes[i]
        ft == IF p.finish_time = None THEN s.current_time ELSE p.finish_time
        tt == ft - p.arrival_time
        wt == tt - SumSeq(p.execution_pattern)
    IN  log_event([s EXCEPT !.processes[i].state = "Terminated",
                            !.processes[i].finish_time = ft,
                            !.processes[i].turnaround_time = tt,
                            !.processes[i].waiting_time = wt,
                            !.terminated_processes = Append(@, i)],
                  "Terminated", p.pid, wt)

\* BaseScheduler.terminate_process
terminate_process(s, i) ==
    LET p  == s.processes[i]
        ft == IF p.finish_time = None THEN s.current_time ELSE p.finish_time
        tt == ft - p.arrival_time
        wt == tt - get_total_burst_time(p)
        p1 == [p EXCEPT !.state = "Terminated",
                        !.finish_time = ft,
                        !.turnaround_time = tt,
                        !.waiting_time = wt]
        s1 == [s EXCEPT !.processes[i] = p1,
                        !.terminated_processes = Append(@, i)]
    IN  log_event(s1, "Terminated", p.pid, wt)

\* BaseScheduler.handle_process_arrival, the loop body for process i and on
RECURSIVE handle_process_arrival_from(_, _)
handle_process_arrival_from(s, i) ==
    IF i > Len(s.processes) THEN s
    ELSE IF s.processes[i].arrival_time = s.current_time
    THEN LET s1 == [s EXCEPT !.processes[i].state = "Ready",
                             !.processes[i].last_ready_time = s.current_time,
                             !.ready_queue = Append(@, i)]
         IN  handle_process_arrival_from(log_event(s1, "arrived", s.processes[i].pid, 0), i + 1)
    ELSE handle_process_arrival_from(s, i + 1)

\* BaseScheduler.handle_process_arrival
handle_process_arrival(s) == handle_process_arrival_from(s, 1)

\* an I/O completion loop that returns the process to the ready queue
\* without moving it to its next burst
RECURSIVE handle_io_completion_without_advance(_, _, _)
handle_io_completion_without_advance(s, entries, k) ==
    IF k > Len(entries) THEN s
    ELSE LET io_time == entries[k][1]
             i == entries[k][2]
         IN  IF io_time <= s.current_time
             THEN handle_io_completion_without_advance(
                      log_event([s EXCEPT !.processes[i].state = "Ready",
                                          !.processes[i].last_ready_time = s.current_time,
                                          !.ready_queue = Append(@, i)],
                                "I/O completed", s.processes[i].pid, 0),
                      entries, k + 1)
             ELSE handle_io_completion_without_advance(s, entries, k + 1)

\* BaseScheduler.handle_io_completion, the first loop over the entries
\* k.. of the io_completion_queue as it was when the loop started
RECURSIVE handle_io_completion_from(_, _, _)
handle_io_completion_from(s, entries, k) ==
    IF k > Len(entries) THEN s
    ELSE LET io_time == entries[k][1]
             i == entries[k][2]
         IN  IF io_time <= s.current_time
             THEN LET p1 == complete_current_burst(s.processes[i])
                      s1 == [s EXCEPT !.processes[i] = p1]
                      s2 == IF ~is_completed(p1)
                            THEN log_event(
                                   [s1 EXCEPT !.processes[i].state = "Ready",
                                              !.processes[i].last_ready_time = s.current_time,
                                              !.ready_queue = Append(@, i)],
                                   "I/O completed", p1.pid, 0)
                            ELSE terminate_process(s1, i)
                  IN  handle_io_completion_from(s2, entries, k + 1)
             ELSE handle_io_completion_from(s, entries, k + 1)

\* a second loop that also removes the entries due one tick later
RECURSIVE pending_ios_dropping(_, _)
pending_ios_dropping(entries, now) ==
    IF entries = <<>> THEN <<>>
    ELSE IF Head(entries)[1] <= now + 1 THEN pending_ios_dropping(Tail(entries), now)
    ELSE <<Head(entries)>> \o pending_ios_dropping(Tail(entries), now)

\* the entries the second loop of handle_io_completion leaves in the queue
RECURSIVE pending_ios(_, _)
pending_ios(entries, now) ==
    IF entries = <<>> THEN <<>>
    ELSE IF Head(entries)[1] <= now THEN pending_ios(Tail(entries), now)
    ELSE <<Head(entries)>> \o pending_ios(Tail(entries), now)

\* BaseScheduler.handle_io_completion
handle_io_completion(s) ==
    LET s1 == handle_io_completion_from(s, s.io_completion_queue, 1)
    IN  [s1 EXCEPT !.io_completion_queue = pending_ios(s.io_completion_queue, s.current_time)]

\* a variant of start_io_operation that checks the burst kind after the
\* state changes instead of before them
start_io_operation_late_check(s, i) ==
    LET p == s.processes[i]
        io_duration == p.remaining_burst_time
        io_completion_time == s.current_time + io_duration
        s1 == [s EXCEPT !.processes[i].state = "Waiting",
                        !.io_completion_queue = Append(@, <<io_completion_time, i>>),
                        !.waiting_queue = Append(@, i)]
        s2 == add_to_gantt_chart(s1, p.pid, s.current_time, io_completion_time, "Waiting")
    IN  IF ~is_io_burst(p) THEN [s2 EXCEPT !.raised = TRUE]
        ELSE log_event(s2, "I/O", p.pid, io_duration)

\* BaseScheduler.start_io_operation
start_io_operation(s, i) ==
    LET p == s.processes[i]
    IN  IF ~is_io_burst(p) THEN [s EXCEPT !.raised = TRUE]
        ELSE LET io_duration == p.remaining_burst_time
                 io_completion_time == s.current_time + io_duration
                 s1 == [s EXCEPT !.processes[i].state = "Waiting",
                                 !.io_completion_queue = Append(@, <<io_completion_time, i>>),
                                 !.waiting_queue = Append(@, i)]
                 s2 == add_to_gantt_chart(s1, p.pid, s.current_time, io_completion_time, "Waiting")
             IN  log_event(s2, "I/O", p.pid, io_duration)

\* Process.execute(1) called on process i of the scheduler, with its check
execute_call(s, i) ==
    IF ~is_cpu_burst(s.processes[i]) THEN [s EXCEPT !.raised = TRUE]
    ELSE [s EXCEPT !.processes[i] = execute(@)]

\* BaseScheduler.context_switch(new_process) for new_process i that is not None
\* (no caller under src/schedulers passes None)
context_switch(s, i) ==
    LET new_pid == s.processes[i].pid
        needs == s.previous_process # None
                 /\ s.processes[s.previous_process].pid # new_pid
        s1 == IF needs
              THEN LET a == log_event([s EXCEPT !.stats.context_switches = @ + 1],
                                      "Context Switch", s.processes[s.previous_process].pid, new_pid)
                   IN  IF CONTEXT_SWITCH_OVERHEAD > 0
                       THEN [add_to_gantt_chart(a, CS_PID, a.current_time,
                                                a.current_time + CONTEXT_SWITCH_OVERHEAD,
                                                "Context Switching")
                               EXCEPT !.current_time = @ + CONTEXT_SWITCH_OVERHEAD]
                       ELSE a
              ELSE s
        s2 == [s1 EXCEPT !.previous_process = i,
                         !.running_process = i,
                         !.processes[i].state = "Running"]
        s3 == IF s2.processes[i].start_time = None
              THEN [s2 EXCEPT !.processes[i].start_time = s2.current_time,
                              !.processes[i].response_time =
                                  s2.current_time - s2.processes[i].arrival_time]
              ELSE s2
    IN  log_event(s3, "Running", new_pid, 0)

\* BaseScheduler.update_statistics
RECURSIVE update_statistics_from(_, _)
update_statistics_from(s, k) ==
    IF k > Len(s.terminated_processes) THEN s
    ELSE LET p == s.processes[s.terminated_processes[k]]
         IN  update_statistics_from(
               [s EXCEPT !.stats.total_waiting_time = @ + p.waiting_time,
                         !.stats.total_turnaround_time = @ + p.turnaround_time,
                         !.stats.total_response_time =
                             IF p.response_time # None THEN @ + p.response_time ELSE @],
               k + 1)

update_statistics(s) ==
    update_statistics_from(
        [s EXCEPT !.stats.total_simulation_time = s.current_time,
                  !.stats.process_count = Len(s.terminated_processes)], 1)

\* SchedulerStats.calculate_averages, the three averages: a quotient a / b is
\* kept as the pair <<a, b>>
calculate_averages(stats) ==
    IF stats.process_count = 0
    THEN [avg_waiting_time |-> <<0, 1>>, avg_turnaround_time |-> <<0, 1>>,
          avg_response_time |-> <<0, 1>>]
    ELSE [avg_waiting_time |-> <<stats.total_waiting_time, stats.process_count>>,
          avg_turnaround_time |-> <<stats.total_turnaround_time, stats.process_count>>,
          avg_response_time |-> <<stats.total_response_time, stats.process_count>>]

\* BaseScheduler.get_results: the scheduler after the call and the
\* statistics of the dictionary returned
get_results(s) ==
    [self |-> update_statistics(s), statistics |-> calculate_averages(update_statistics(s).stats)]

\* BaseScheduler.is_simulation_complete
is_simulation_complete(s) == Len(s.terminated_processes) >= Len(s.processes)

-----------------------------------------------------------------------------
(* Selection and preemption rules of the scheduler classes *)

Policies == {"FCFS", "SJF", "RR", "PRIORITY", "AGING", "MLQ", "RM", "EDF"}

\* Python min(queue, key=...): the first element of the queue whose key is
\* minimal; keys[k] is the key tuple of queue[k]
first_min(queue, keys) ==
    queue[CHOOSE k \in 1..Len(queue) :
            \A j \in 1..Len(queue) :
                /\ (j < k => LexLess(keys[k], keys[j]))
                /\ (j > k => ~LexLess(keys[j], keys[k]))]

\* a variant of select_next_process that takes the newest entry of the queue
fcfs_select_newest(s) ==
    IF s.ready_queue = <<>> THEN None ELSE s.ready_queue[Len(s.ready_queue)]

\* FCFSScheduler.select_next_process (RoundRobinScheduler's is the same)
fcfs_select_next_process(s) ==
    IF s.ready_queue = <<>> THEN None ELSE s.ready_queue[1]

\* the key of SJFScheduler.select_next_process and check_preemption
sjf_key(s, i) == <<get_remaining_time(s.processes[i]), s.processes[i].arrival_time>>

\* SJFScheduler.select_next_process
sjf_select_next_process(s) ==
    IF s.ready_queue = <<>> THEN None
    ELSE first_min(s.ready_queue, [k \in 1..Len(s.ready_queue) |-> sjf_key(s, s.ready_queue[k])])

\* a variant of check_preemption that never preempts (non-preemptive SJF)
sjf_never_preempts(s) == FALSE

\* a variant of the SRTF preemption check that never preempts
sjf_check_preemption_never(s) == FALSE

\* SJFScheduler.check_preemption
sjf_check_preemption(s) ==
    IF s.running_process = None \/ s.ready_queue = <<>> THEN FALSE
    ELSE get_remaining_time(s.processes[sjf_select_next_process(s)])
             < get_remaining_time(s.processes[s.running_process])

\* the key of PriorityScheduler / PriorityAgingScheduler
priority_key(s, i) == <<s.processes[i].priority, s.processes[i].arrival_time>>

\* PriorityScheduler.select_next_process (PriorityAgingScheduler's is the same)
priority_select_next_process(s) ==
    IF s.ready_queue = <<>> THEN None
    ELSE first_min(s.ready_queue, [k \in 1..Len(s.ready_queue) |-> priority_key(s, s.ready_queue[k])])

\* a variant of the Priority preemption check that never preempts
priority_check_preemption_never(s) == FALSE

\* PriorityScheduler.check_preemption (PriorityAgingScheduler's is the same)
priority_check_preemption(s) ==
    IF s.running_process = None \/ s.ready_queue = <<>> THEN FALSE
    ELSE s.processes[priority_select_next_process(s)].priority
             < s.processes[s.running_process].priority

\* the key of RateMonotonicScheduler
rm_key(s, i) == <<s.processes[i].period, s.processes[i].arrival_time>>

\* RateMonotonicScheduler.select_next_process
rm_select_next_process(s) ==
    IF s.ready_queue = <<>> THEN None
    ELSE first_min(s.ready_queue, [k \in 1..Len(s.ready_queue) |-> rm_key(s, s.ready_queue[k])])

\* RateMonotonicScheduler.check_preemption
rm_check_preemption(s) ==
    IF s.running_process = None \/ s.ready_queue = <<>> THEN FALSE
    ELSE s.processes[rm_select_next_process(s)].period
             < s.processes[s.running_process].period

\* the key of EDFScheduler
edf_key(s, i) == <<s.processes[i].absolute_deadline, s.processes[i].arrival_time>>

\* EDFScheduler.select_next_process
edf_select_next_process(s) ==
    IF s.ready_queue = <<>> THEN None
    ELSE first_min(s.ready_queue, [k \in 1..Len(s.ready_queue) |-> edf_key(s, s.ready_queue[k])])

\* a variant of the EDF preemption check that never preempts
edf_check_preemption_never(s) == FALSE

\* EDFScheduler.check_preemption
edf_check_preemption(s) ==
    IF s.running_process = None \/ s.ready_queue = <<>> THEN FALSE
    ELSE s.processes[edf_select_next_process(s)].absolute_deadline
             < s.processes[s.running_process].absolute_deadline

\* MLQScheduler.select_next_process
mlq_select_next_process(s) ==
    IF s.queues[1] # <<>> THEN s.queues[1][1]
    ELSE IF s.queues[2] # <<>> THEN s.queues[2][1]
    ELSE IF s.queues[3] # <<>> THEN s.queues[3][1]
    ELSE None

\* self.select_next_process() as the class of the scheduler resolves it
select_next_process(s) ==
    CASE s.policy \in {"FCFS", "RR"} -> fcfs_select_next_process(s)
      [] s.policy = "SJF" -> sjf_select_next_process(s)
      [] s.policy \in {"PRIORITY", "AGING"} -> priority_select_next_process(s)
      [] s.policy = "RM" -> rm_select_next_process(s)
      [] s.policy = "EDF" -> edf_select_next_process(s)
      [] s.policy = "MLQ" -> mlq_select_next_process(s)

\* self.check_preemption() as the class of the scheduler resolves it
\* (FCFS, RR and MLQ define none)
check_preemption(s) ==
    CASE s.policy = "SJF" -> sjf_check_preemption(s)
      [] s.policy \in {"PRIORITY", "AGING"} -> priority_check_preemption(s)
      [] s.policy = "RM" -> rm_check_preemption(s)
      [] s.policy = "EDF" -> edf_check_preemption(s)
      [] OTHER -> FALSE

\* MLQScheduler.handle_process_arrival, the loop body for process i and on
RECURSIVE mlq_handle_process_arrival_from(_, _)
mlq_handle_process_arrival_from(s, i) ==
    IF i > Len(s.processes) THEN s
    ELSE IF s.processes[i].arrival_time = s.current_time
    THEN LET s1 == [s EXCEPT !.processes[i].state = "Ready",
                             !.processes[i].last_ready_time = s.current_time,
                             !.processes[i].queue_level = 0,
                             !.queues[1] = Append(@, i)]
         IN  mlq_handle_process_arrival_from(log_event(s1, "arrived", s.processes[i].pid, 0), i + 1)
    ELSE mlq_handle_process_arrival_from(s, i + 1)

\* MLQScheduler.handle_process_arrival
mlq_handle_process_arrival(s) == mlq_handle_process_arrival_from(s, 1)

\* an I/O completion loop that returns every process to the highest queue
RECURSIVE mlq_handle_io_completion_to_top(_, _, _)
mlq_handle_io_completion_to_top(s, entries, k) ==
    IF k > Len(entries) THEN s
    ELSE LET io_time == entries[k][1]
             i == entries[k][2]
         IN  IF io_time <= s.current_time
             THEN LET p1 == complete_current_burst(s.processes[i])
                      s1 == [s EXCEPT !.processes[i] = p1]
                      s2 == IF ~is_completed(p1)
                            THEN log_event(
                                   [s1 EXCEPT !.processes[i].state = "Ready",
                                              !.processes[i].last_ready_time = s.current_time,
                                              !.queues[1] = Append(@, i)],
                                   "I/O completed", p1.pid, p1.queue_level)
                            ELSE terminate_process(s1, i)
                  IN  mlq_handle_io_completion_to_top(s2, entries, k + 1)
             ELSE mlq_handle_io_completion_to_top(s, entries, k + 1)

\* MLQScheduler.handle_io_completion, the first loop
RECURSIVE mlq_handle_io_completion_from(_, _, _)
mlq_handle_io_completion_from(s, entries, k) ==
    IF k > Len(entries) THEN s
    ELSE LET io_time == entries[k][1]
             i == entries[k][2]
         IN  IF io_time <= s.current_time
             THEN LET p1 == complete_current_burst(s.processes[i])
                      s1 == [s EXCEPT !.processes[i] = p1]
                      s2 == IF ~is_completed(p1)
                            THEN log_event(
                                   [s1 EXCEPT !.processes[i].state = "Ready",
                                              !.processes[i].last_ready_time = s.current_time,
                                              !.queues[p1.queue_level + 1] = Append(@, i)],
                                   "I/O completed", p1.pid, p1.queue_level)
                            ELSE terminate_process(s1, i)
                  IN  mlq_handle_io_completion_from(s2, entries, k + 1)
             ELSE mlq_handle_io_completion_from(s, entries, k + 1)

\* MLQScheduler.handle_io_completion
mlq_handle_io_completion(s) ==
    LET s1 == mlq_handle_io_completion_from(s, s.io_completion_queue, 1)
    IN  [s1 EXCEPT !.io_completion_queue = pending_ios(s.io_completion_queue, s.current_time)]

\* PriorityAgingScheduler.apply_aging_to_ready_queue, the loop over the
\* entries k.. of the ready queue
RECURSIVE apply_aging_to_ready_queue_from(_, _)
apply_aging_to_ready_queue_from(s, k) ==
    IF k > Len(s.ready_queue) THEN s
    ELSE LET i == s.ready_queue[k]
         IN  apply_aging_to_ready_queue_from(
               [s EXCEPT !.processes[i] =
                   apply_aging(update_waiting_time(@, s.current_time), s.aging_factor)],
               k + 1)

\* PriorityAgingScheduler.apply_aging_to_ready_queue
apply_aging_to_ready_queue(s) == apply_aging_to_ready_queue_from(s, 1)

-----------------------------------------------------------------------------
(* The steps of one tick, shared by run() and execute_one_step().  The      *)
(* eight classes repeat this code; where a class differs the step branches  *)
(* on s.policy.                                                             *)

\* step 1 of the tick
arrival_step(s) ==
    IF s.policy = "MLQ" THEN mlq_handle_process_arrival(s) ELSE handle_process_arrival(s)

\* step 2 of the tick
io_completion_step(s) ==
    IF s.policy = "MLQ" THEN mlq_handle_io_completion(s) ELSE handle_io_completion(s)

\* the aging pass (PriorityAgingScheduler only)
aging_step(s) ==
    IF s.policy = "AGING" THEN apply_aging_to_ready_queue(s) ELSE s

\* "if execution_start is not None: add_to_gantt_chart(...); execution_start = None"
\* for the running process, the span ending at current_time
flush_running_span(s) ==
    IF s.execution_start # None
    THEN [add_to_gantt_chart(s, s.processes[s.running_process].pid, s.execution_start,
                             s.current_time, "Running")
            EXCEPT !.execution_start = None]
    ELSE s

\* a variant of the time slice check that puts the process back at the head
\* of the ready queue
rr_requeue_at_head(s) ==
    IF s.running_process # None /\ s.current_time_slice >= s.time_slice
    THEN LET i  == s.running_process
             s1 == log_event(flush_running_span(s), "time slice expired", s.processes[i].pid, 0)
         IN  [s1 EXCEPT !.processes[i].state = "Ready",
                        !.processes[i].last_ready_time = s.current_time,
                        !.ready_queue = <<i>> \o @,
                        !.running_process = None,
                        !.current_time_slice = 0]
    ELSE s

\* RoundRobinScheduler: "타임 슬라이스 만료 확인"
rr_time_slice_step(s) ==
    IF s.running_process # None /\ s.current_time_slice >= s.time_slice
    THEN LET i  == s.running_process
             s1 == log_event(flush_running_span(s), "time slice expired", s.processes[i].pid, 0)
         IN  [s1 EXCEPT !.processes[i].state = "Ready",
                        !.processes[i].last_ready_time = s.current_time,
                        !.ready_queue = Append(@, i),
                        !.running_process = None,
                        !.current_time_slice = 0]
    ELSE s

\* MLQScheduler.time_slices
mlq_time_slices(level) ==
    CASE level = 0 -> MLQ_SLICE_0
      [] level = 1 -> MLQ_SLICE_1
      [] OTHER -> Infinity

\* a quantum check that never demotes
mlq_time_slice_step_never(s, level) == s

\* MLQScheduler: quantum expiry with demotion; level is current_queue_level
mlq_time_slice_step(s, level) ==
    IF s.running_process # None /\ level < 2 /\ s.current_time_slice >= mlq_time_slices(level)
    THEN LET i  == s.running_process
             new_level == Min2(2, level + 1)
             s1 == flush_running_span(s)
             s2 == [s1 EXCEPT !.processes[i].queue_level = new_level,
                              !.processes[i].state = "Ready",
                              !.processes[i].last_ready_time = s.current_time,
                              !.queues[new_level + 1] = Append(@, i)]
             s3 == log_event(s2, "demoted", s.processes[i].pid, new_level)
         IN  [s3 EXCEPT !.running_process = None, !.current_time_slice = 0]
    ELSE s

\* a preemption check that leaves the running process on the CPU whatever
\* the queues above its level hold
mlq_preemption_step_never(s, level) == s

\* MLQScheduler: preemption by a non-empty queue above current_queue_level
mlq_preemption_step(s, level) ==
    IF s.running_process # None /\ \E l \in 0..(level - 1) : s.queues[l + 1] # <<>>
    THEN LET i  == s.running_process
             s1 == flush_running_span(s)
             s2 == [s1 EXCEPT !.processes[i].state = "Ready",
                              !.processes[i].last_ready_time = s.current_time,
                              !.queues[level + 1] = Append(@, i)]
             s3 == log_event(s2, "preempted", s.processes[i].pid, level)
         IN  [s3 EXCEPT !.running_process = None, !.current_time_slice = 0]
    ELSE s

\* MLQScheduler: both checks; current_queue_level is read from the running
\* process before the quantum check and keeps that value for the second check
mlq_checks_step(s) ==
    IF s.running_process # None
    THEN LET level == s.processes[s.running_process].queue_level
         IN  mlq_preemption_step(mlq_time_slice_step(s, level), level)
    ELSE s

\* "선점 검사" of SJF, Priority, Priority with Aging, RM and EDF
preemption_step(s) ==
    IF s.running_process # None /\ check_preemption(s)
    THEN LET i  == s.running_process
             s1 == flush_running_span(s)
             s2 == [s1 EXCEPT !.processes[i].state = "Ready",
                              !.processes[i].last_ready_time = s.current_time,
                              !.ready_queue = Append(@, i)]
             s3 == log_event(s2, "preempted", s.processes[i].pid, 0)
         IN  [s3 EXCEPT !.running_process = None]
    ELSE s

\* the checks between I/O completion and selection, by class
checks_step(s) ==
    CASE s.policy = "FCFS" -> s
      [] s.policy = "RR" -> rr_time_slice_step(s)
      [] s.policy = "MLQ" -> mlq_checks_step(s)
      [] OTHER -> preemption_step(s)

\* removal of the selected process from its queue:
\* a dispatch that leaves the selected process in its queue
take_from_queue_keeping(s, i) ==
    LET s2 == IF s.policy = "AGING"
              THEN [s EXCEPT !.processes[i] = reset_to_initial_priority(@)]
              ELSE s
    IN  [s2 EXCEPT !.dispatch_history = Append(@, s.processes[i].pid)]

\* self.ready_queue.remove(next_process), or for MLQ the first level holding it;
\* PriorityAgingScheduler also resets its priority here
take_from_queue(s, i) ==
    LET s1 == IF s.policy = "MLQ"
              THEN IF InSeq(s.queues[1], i) THEN [s EXCEPT !.queues[1] = RemoveFirst(@, i)]
                   ELSE IF InSeq(s.queues[2], i) THEN [s EXCEPT !.queues[2] = RemoveFirst(@, i)]
                   ELSE IF InSeq(s.queues[3], i) THEN [s EXCEPT !.queues[3] = RemoveFirst(@, i)]
                   ELSE s
              ELSE [s EXCEPT !.ready_queue = RemoveFirst(@, i)]
        s2 == IF s.policy = "AGING"
              THEN [s1 EXCEPT !.processes[i] = reset_to_initial_priority(@)]
              ELSE s1
    IN  [s2 EXCEPT !.dispatch_history = Append(@, s.processes[i].pid)]

\* "CPU 실행": one tick of the running process, or an idle Gantt entry
cpu_step(s) ==
    IF s.running_process # None
    THEN LET i  == s.running_process
             s1 == IF s.execution_start = None
                   THEN [s EXCEPT !.execution_start = s.current_time] ELSE s
         IN  IF ~is_cpu_burst(s1.processes[i]) THEN [s1 EXCEPT !.raised = TRUE]
             ELSE
             LET sliced == s.policy \in {"RR", "MLQ"}
                 s2 == [s1 EXCEPT !.processes[i] = execute(@),
                                  !.stats.cpu_busy_time = @ + 1,
                                  !.current_time_slice = IF sliced THEN @ + 1 ELSE @]
             IN  IF burst_completed(s2.processes[i])
                 THEN LET s3 == [add_to_gantt_chart(s2, s2.processes[i].pid, s2.execution_start,
                                                    s2.current_time + 1, "Running")
                                   EXCEPT !.execution_start = None]
                          s4 == [s3 EXCEPT !.processes[i] = complete_current_burst(@),
                                           !.current_time_slice = IF sliced THEN 0 ELSE @]
                      IN  IF is_completed(s4.processes[i])
                          THEN [terminate_process(
                                   [s4 EXCEPT !.processes[i].finish_time = s4.current_time + 1], i)
                                  EXCEPT !.running_process = None]
                          ELSE IF is_io_burst(s4.processes[i])
                          THEN LET s5 == start_io_operation(s4, i)
                               IN  IF s5.raised THEN s5
                                   ELSE [s5 EXCEPT !.running_process = None]
                          ELSE s4
                 ELSE s2
    ELSE add_to_gantt_chart(s, IDLE_PID, s.current_time, s.current_time + 1, "Ready")

-----------------------------------------------------------------------------
(* src/core/sync.py *)

\* Semaphore.__init__
Semaphore(name, initial) == [name |-> name, value |-> initial, wait_queue |-> <<>>]

\* a variant of wait that takes a permit whether or not one is left
wait_never_blocking(sem, proc) ==
    [self |-> [sem EXCEPT !.value = @ - 1], result |-> TRUE]

\* Semaphore.wait: the semaphore after the call and the value returned
wait(sem, proc) ==
    IF sem.value > 0
    THEN [self |-> [sem EXCEPT !.value = @ - 1], result |-> TRUE]
    ELSE [self |-> [sem EXCEPT !.wait_queue = Append(@, proc)], result |-> FALSE]

\* a variant of signal that wakes the process that blocked last
signal_newest_waiter(sem) ==
    IF sem.wait_queue # <<>>
    THEN [self |-> [sem EXCEPT !.wait_queue = SubSeq(@, 1, Len(@) - 1)],
          result |-> sem.wait_queue[Len(sem.wait_queue)]]
    ELSE [self |-> [sem EXCEPT !.value = @ + 1], result |-> None]

\* a variant of signal that also increments the count when it wakes a waiter
signal_incrementing(sem) ==
    IF sem.wait_queue # <<>>
    THEN [self |-> [sem EXCEPT !.wait_queue = Tail(@), !.value = @ + 1],
          result |-> Head(sem.wait_queue)]
    ELSE [self |-> [sem EXCEPT !.value = @ + 1], result |-> None]

\* Semaphore.signal: the semaphore after the call and the process returned
signal(sem) ==
    IF sem.wait_queue # <<>>
    THEN [self |-> [sem EXCEPT !.wait_queue = Tail(@)], result |-> Head(sem.wait_queue)]
    ELSE [self |-> [sem EXCEPT !.value = @ + 1], result |-> None]

\* Mutex.__init__
Mutex(name) == [name |-> name, owner |-> None, wait_queue |-> <<>>]

\* Mutex.try_lock; processes gives the pid of owner and caller
try_lock(mutex, proc, processes) ==
    IF mutex.owner = None
    THEN [self |-> [mutex EXCEPT !.owner = proc], result |-> TRUE]
    ELSE IF processes[mutex.owner].pid = processes[proc].pid
    THEN [self |-> mutex, result |-> TRUE]
    ELSE [self |-> [mutex EXCEPT !.wait_queue = Append(@, proc)], result |-> FALSE]

\* Mutex.unlock
unlock(mutex) ==
    IF mutex.wait_queue # <<>>
    THEN [self |-> [mutex EXCEPT !.wait_queue = Tail(@), !.owner = Head(mutex.wait_queue)],
          result |-> Head(mutex.wait_queue)]
    ELSE [self |-> [mutex EXCEPT !.owner = None], result |-> None]

\* SyncManager as the demo leaves it after get_semaphore('empty', n),
\* get_semaphore('full', 0) and get_mutex('mutex')
SyncManager(buffer_size) ==
    [ semaphores |-> [empty |-> Semaphore("empty", buffer_size), full |-> Semaphore("full", 0)],
      mutexes |-> <<Mutex("mutex")>> ]

\* SyncManager.__init__
NewSyncManager == [semaphores |-> <<>>, mutexes |-> <<>>]

\* SyncManager.get_semaphore: the manager after the call
get_semaphore(sync_manager, name, initial) ==
    IF name \in DOMAIN sync_manager.semaphores
    THEN sync_manager
    ELSE [sync_manager EXCEPT !.semaphores = @ @@ (name :> Semaphore(name, initial))]

\* SyncManager.get_mutex: the manager after the call (mutexes in insertion order)
get_mutex(sync_manager, name) ==
    IF \E k \in 1..Len(sync_manager.mutexes) : sync_manager.mutexes[k].name = name
    THEN sync_manager
    ELSE [sync_manager EXCEPT !.mutexes = Append(@, Mutex(name))]

\* detect_deadlock, the edges the waiters k.. of one mutex add: waiter -> holder
RECURSIVE wait_for_edges(_, _, _)
wait_for_edges(mutex, processes, k) ==
    IF k > Len(mutex.wait_queue) THEN {}
    ELSE LET w == processes[mutex.wait_queue[k]].pid
             holder == IF mutex.owner # None THEN processes[mutex.owner].pid ELSE None
         IN  (IF holder # None /\ holder # w THEN {<<w, holder>>} ELSE {})
                 \cup wait_for_edges(mutex, processes, k + 1)

\* detect_deadlock, the nodes the waiters k.. of one mutex add
RECURSIVE wait_for_nodes(_, _, _)
wait_for_nodes(mutex, processes, k) ==
    IF k > Len(mutex.wait_queue) THEN {}
    ELSE LET w == processes[mutex.wait_queue[k]].pid
             holder == IF mutex.owner # None THEN processes[mutex.owner].pid ELSE None
         IN  {w} \cup (IF holder # None /\ holder # w THEN {holder} ELSE {})
                 \cup wait_for_nodes(mutex, processes, k + 1)

\* the position of v in path (list.index)
index(path, v) == CHOOSE k \in 1..Len(path) : path[k] = v /\ \A j \in 1..(k - 1) : path[j] # v

\* the element a loop over a set of pids takes first (small ints iterate in
\* ascending order)
first_of(pids) == CHOOSE v \in pids : \A u \in pids : v <= u

\* the neighbours of u: graph.get(u, ())
neighbours(graph, u) == {e[2] : e \in {d \in graph : d[1] = u}}

\* detect_deadlock.dfs, the for loop over the neighbours vs still to look at,
\* with the recursive call dfs(v) unfolded: the cycle found (<<>> for None)
\* and the visited set afterwards.  The stack set always holds the elements
\* of path.
RECURSIVE dfs_neighbours(_, _, _, _)
dfs_neighbours(graph, vs, visited, path) ==
    IF vs = {} THEN [cyc |-> <<>>, visited |-> visited]
    ELSE LET v == first_of(vs)
         IN  IF v \notin visited
             THEN LET r == dfs_neighbours(graph, neighbours(graph, v),
                                          visited \cup {v}, Append(path, v))
                  IN  IF r.cyc # <<>> THEN r
                      ELSE dfs_neighbours(graph, vs \ {v}, r.visited, path)
             ELSE IF InSeq(path, v)
             THEN [cyc |-> SubSeq(path, index(path, v), Len(path)), visited |-> visited]
             ELSE dfs_neighbours(graph, vs \ {v}, visited, path)

\* detect_deadlock.dfs(u), called with an empty path
dfs(graph, u, visited, path) ==
    dfs_neighbours(graph, neighbours(graph, u), visited \cup {u}, Append(path, u))

\* a variant of the loop "for n in nodes" that starts the search from the
\* first node only
dfs_from_first_node(graph, ns, visited) ==
    IF ns = {} THEN <<>>
    ELSE dfs(graph, first_of(ns), visited, <<>>).cyc

\* detect_deadlock, the loop "for n in nodes" over the nodes ns still to start from
RECURSIVE dfs_from_nodes(_, _, _)
dfs_from_nodes(graph, ns, visited) ==
    IF ns = {} THEN <<>>
    ELSE LET n == first_of(ns)
         IN  IF n \notin visited
             THEN LET r == dfs(graph, n, visited, <<>>)
                  IN  IF r.cyc # <<>> THEN r.cyc
                      ELSE dfs_from_nodes(graph, ns \ {n}, r.visited)
             ELSE dfs_from_nodes(graph, ns \ {n}, visited)

\* SyncManager.detect_deadlock: the pids of a cycle of the wait-for graph, or <<>>
detect_deadlock(sync_manager, processes) ==
    LET graph == UNION {wait_for_edges(sync_manager.mutexes[m], processes, 1) :
                            m \in 1..Len(sync_manager.mutexes)}
        nodes == UNION {wait_for_nodes(sync_manager.mutexes[m], processes, 1) :
                            m \in 1..Len(sync_manager.mutexes)}
    IN  dfs_from_nodes(graph, nodes, {})

-----------------------------------------------------------------------------
(* src/schedulers/sync_demo.py *)

SYNC_TIME_SLICE == 4
CRITICAL_TICKS == 2
DEADLOCK_CHECK_PERIOD == 10

\* "[p for p in processes if p.initial_priority <= 3][:1]", from position k on
RECURSIVE first_producer(_, _)
first_producer(processes, k) ==
    IF k > Len(processes) THEN <<>>
    ELSE IF processes[k].initial_priority <= 3 THEN <<k>>
    ELSE first_producer(processes, k + 1)

\* "[p for p in processes if p.initial_priority >= 4][:1]", from position k on
RECURSIVE first_consumer(_, _)
first_consumer(processes, k) ==
    IF k > Len(processes) THEN <<>>
    ELSE IF processes[k].initial_priority >= 4 THEN <<k>>
    ELSE first_consumer(processes, k + 1)

\* prods + cons of SyncDemoScheduler.__init__, as positions of the list given
sync_selection(processes) ==
    LET prods == IF first_producer(processes, 1) # <<>> THEN first_producer(processes, 1)
                 ELSE <<1>>
        cons  == IF first_consumer(processes, 1) # <<>> THEN first_consumer(processes, 1)
                 ELSE IF Len(processes) >= 2 THEN <<2>> ELSE <<1>>
    IN  prods \o cons

\* the copy SyncDemoScheduler.__init__ makes of a selected process, with the
\* attributes it sets on it
sync_process(p, role, rounds) ==
    [p EXCEPT !.arrival_time = 0, !.execution_pattern = <<rounds * 2>>]
        @@ [ sync_role |-> role,
             sync_rounds_done |-> 0,
             sync_rounds_total |-> rounds,
             sync_phase |-> "IDLE",
             sync_critical_cpu |-> 0 ]

\* SyncDemoScheduler.__init__
SyncDemoScheduler(processes, buffer_size, rounds) ==
    LET sel == sync_selection(processes)
        selected == [k \in 1..Len(sel) |->
                        sync_process(create_process_copy(processes[sel[k]]).object,
                                     IF k < 2 THEN "producer" ELSE "consumer", rounds)]
    IN  BaseScheduler("SYNC", selected, SYNC_TIME_SLICE, DefaultAgingFactor)
            @@ [ time_used |-> 0,
                 sync_manager |-> SyncManager(buffer_size),
                 deadlock_checks |-> 0,
                 deadlocks_detected |-> 0 ]

\* SyncDemoScheduler._is_process_done
is_process_done(p) == p.sync_rounds_done >= p.sync_rounds_total

\* the branch of _process_sync_step taken when a wait or a try_lock fails
sync_block_log(s, i, tag) ==
    IF ~InSeq(s.waiting_queue, i)
    THEN log_event([s EXCEPT !.waiting_queue = Append(@, i)], tag, s.processes[i].pid, 0)
    ELSE s

sync_block(s, i, tag) ==
    add_to_gantt_chart(sync_block_log([s EXCEPT !.processes[i].state = "Waiting"], i, tag),
                       s.processes[i].pid, s.current_time, s.current_time + 1, "Waiting")

\* what _process_sync_step does with the process j that unlock or signal
\* returned (nothing when it returned None)
sync_unblock(s, j, phase, tag) ==
    IF j = None THEN s
    ELSE log_event([s EXCEPT !.processes[j].state = "Ready",
                             !.processes[j].last_ready_time = s.current_time,
                             !.processes[j].sync_phase = phase,
                             !.waiting_queue = RemoveFirst(@, j),
                             !.ready_queue = Append(@, j)],
                   tag, s.processes[j].pid, 0)

\* _process_sync_step, phase IDLE: sem.wait(p) on the semaphore named sem
sync_wait_semaphore(s, i, sem) ==
    IF wait(s.sync_manager.semaphores[sem], i).result
    THEN log_event([s EXCEPT !.sync_manager.semaphores[sem] = wait(@, i).self,
                             !.processes[i].sync_phase = "WAIT_MUTEX"],
                   "acquired semaphore", s.processes[i].pid, 0)
    ELSE sync_block([s EXCEPT !.sync_manager.semaphores[sem] = wait(@, i).self],
                    i, "Waiting on semaphore")

\* _process_sync_step, phase WAIT_MUTEX: self.mutex.try_lock(p)
sync_lock_mutex(s, i) ==
    IF try_lock(s.sync_manager.mutexes[1], i, s.processes).result
    THEN log_event([s EXCEPT !.sync_manager.mutexes[1] = try_lock(@, i, s.processes).self,
                             !.processes[i].sync_phase = "CRITICAL",
                             !.processes[i].sync_critical_cpu = 0],
                   "acquired mutex", s.processes[i].pid, 0)
    ELSE sync_block([s EXCEPT !.sync_manager.mutexes[1] = try_lock(@, i, s.processes).self],
                    i, "Waiting on mutex")

\* _process_sync_step, leaving the critical section: self.mutex.unlock()
sync_unlock_mutex(s) ==
    sync_unblock([s EXCEPT !.sync_manager.mutexes[1] = unlock(@).self],
                 unlock(s.sync_manager.mutexes[1]).result,
                 "WAIT_MUTEX", "unblocked by mutex")

\* _process_sync_step, leaving the critical section: sem_sig.signal()
sync_signal_semaphore(s, sem_sig) ==
    sync_unblock([s EXCEPT !.sync_manager.semaphores[sem_sig] = signal(@).self],
                 signal(s.sync_manager.semaphores[sem_sig]).result,
                 "IDLE", "unblocked by semaphore")

\* _process_sync_step, leaving the critical section: "라운드 완료"
sync_round_done(s, i) ==
    log_event([s EXCEPT !.processes[i].sync_rounds_done = @ + 1,
                        !.processes[i].sync_phase =
                            IF s.processes[i].sync_rounds_done + 1
                                   >= s.processes[i].sync_rounds_total
                            THEN "DONE" ELSE "IDLE"],
              "round done", s.processes[i].pid, s.processes[i].sync_rounds_done + 1)

\* the value SyncDemoScheduler._process_sync_step returns: a CPU tick is used
\* only inside the critical section
sync_cpu_consumed(s, i) ==
    /\ ~is_process_done(s.processes[i])
    /\ s.processes[i].sync_phase = "CRITICAL"
    /\ s.processes[i].sync_critical_cpu < CRITICAL_TICKS

\* SyncDemoScheduler._process_sync_step: the scheduler after the call
process_sync_step(s, i) ==
    IF is_process_done(s.processes[i]) THEN s
    ELSE IF s.processes[i].sync_phase = "IDLE"
    THEN sync_wait_semaphore(s, i, IF s.processes[i].sync_role = "producer"
                                   THEN "empty" ELSE "full")
    ELSE IF s.processes[i].sync_phase = "WAIT_MUTEX"
    THEN sync_lock_mutex(s, i)
    ELSE IF s.processes[i].sync_phase = "CRITICAL"
    THEN IF s.processes[i].sync_critical_cpu < CRITICAL_TICKS
         THEN [s EXCEPT !.processes[i].sync_critical_cpu = @ + 1]
         ELSE sync_round_done(
                  sync_signal_semaphore(sync_unlock_mutex(s),
                                        IF s.processes[i].sync_role = "producer"
                                        THEN "full" ELSE "empty"),
                  i)
    ELSE s

\* "if cpu_consumed: cpu_busy_time += 1; time_used += 1"
sync_account(s, cpu_consumed) ==
    IF cpu_consumed
    THEN [s EXCEPT !.stats.cpu_busy_time = @ + 1, !.time_used = @ + 1]
    ELSE s

\* the Running span of process i up to end, and the CPU released.  run() keeps
\* the start of the span in its local exec_start, which the model holds in
\* execution_start.
sync_release(s, i, end) ==
    [(IF s.execution_start # None
      THEN add_to_gantt_chart(s, s.processes[i].pid, s.execution_start, end, "Running")
      ELSE s)
        EXCEPT !.running_process = None, !.execution_start = None, !.time_used = 0]

\* "완료 체크", "블락 체크", "타임슬라이스 체크" after the step of process i
sync_after_step(s, i) ==
    IF is_process_done(s.processes[i])
    THEN sync_release(
             terminate_process([s EXCEPT !.processes[i].finish_time = s.current_time + 1], i),
             i, s.current_time + 1)
    ELSE IF s.processes[i].state = "Waiting"
    THEN sync_release(s, i, s.current_time)
    ELSE IF s.time_used >= s.time_slice
    THEN sync_release(
             log_event([s EXCEPT !.processes[i].state = "Ready",
                                 !.processes[i].last_ready_time = s.current_time + 1,
                                 !.ready_queue = Append(@, i)],
                       "time slice expired", s.processes[i].pid, 0),
             i, s.current_time + 1)
    ELSE s

\* "3. Execute" of run() and of execute_one_step()
sync_execute(s) ==
    IF s.running_process # None
    THEN sync_after_step(
             sync_account(process_sync_step(s, s.running_process),
                          sync_cpu_consumed(s, s.running_process)),
             s.running_process)
    ELSE add_to_gantt_chart(s, IDLE_PID, s.current_time, s.current_time + 1, "Ready")

\* min(cycle)
RECURSIVE min(_)
min(cycle) ==
    IF Len(cycle) = 1 THEN cycle[1] ELSE Min2(Head(cycle), min(Tail(cycle)))

\* deadlock recovery: the loop over self.processes from position k on, which
\* aborts the first Waiting process with the victim's pid
RECURSIVE sync_abort_victim(_, _, _)
sync_abort_victim(s, victim_pid, k) ==
    IF k > Len(s.processes) THEN s
    ELSE IF s.processes[k].pid = victim_pid /\ s.processes[k].state = "Waiting"
    THEN [log_event(s, "DEADLOCK RECOVERY", victim_pid, 0)
            EXCEPT !.processes[k].state = "Terminated",
                   !.processes[k].finish_time = s.current_time,
                   !.terminated_processes = Append(@, k),
                   !.waiting_queue = RemoveFirst(@, k)]
    ELSE sync_abort_victim(s, victim_pid, k + 1)

\* "교착상태 탐지 (매 10 틱마다)"
sync_deadlock_check(s) ==
    IF s.current_time % DEADLOCK_CHECK_PERIOD = 0
    THEN IF detect_deadlock(s.sync_manager, s.processes) # <<>>
         THEN sync_abort_victim(
                  log_event([s EXCEPT !.deadlock_checks = @ + 1,
                                      !.deadlocks_detected = @ + 1],
                            "DEADLOCK DETECTED", 0, 0),
                  min(detect_deadlock(s.sync_manager, s.processes)), 1)
         ELSE [s EXCEPT !.deadlock_checks = @ + 1]
    ELSE s

\* "2. Select" of run(): ready_queue.pop(0) and self.context_switch(next_p)
sync_run_started(s) == [s EXCEPT !.execution_start = s.current_time, !.time_used = 0]

sync_run_dispatch(s) ==
    IF s.running_process = None /\ s.ready_queue # <<>>
    THEN sync_run_started(
             context_switch([s EXCEPT !.ready_queue = Tail(@),
                                      !.dispatch_history =
                                          Append(@, s.processes[Head(s.ready_queue)].pid)],
                            Head(s.ready_queue)))
    ELSE s

\* the end of an iteration of run(); MaxTicks stands for its guard of 5000 ticks
sync_run_advance(s) ==
    IF s.current_time + 1 > MaxTicks
    THEN [log_event([s EXCEPT !.current_time = @ + 1], "Timeout", 0, 0) EXCEPT !.broke = TRUE]
    ELSE [s EXCEPT !.current_time = @ + 1]

\* one iteration of the while loop of SyncDemoScheduler.run()
sync_run_iteration(s) ==
    sync_run_advance(sync_deadlock_check(sync_execute(
        sync_run_dispatch(handle_process_arrival(s)))))

\* the exit of SyncDemoScheduler.run(): three log lines and get_results()
sync_run_return(s) ==
    update_statistics(
        log_event(log_event(log_event(s, "Completed", 0, 0),
                            "Deadlock Checks", s.deadlock_checks, 0),
                  "Deadlocks Detected", s.deadlocks_detected, 0))

\* "2. Select" of execute_one_step(): the head of the ready queue takes the CPU
sync_step_dispatch(s) ==
    IF s.running_process = None /\ s.ready_queue # <<>>
    THEN log_event(
             [s EXCEPT !.ready_queue = Tail(@),
                       !.dispatch_history = Append(@, s.processes[Head(s.ready_queue)].pid),
                       !.running_process = Head(s.ready_queue),
                       !.processes[Head(s.ready_queue)].state = "Running",
                       !.processes[Head(s.ready_queue)].start_time =
                           IF @ = None THEN s.current_time ELSE @,
                       !.processes[Head(s.ready_queue)].response_time =
                           IF s.processes[Head(s.ready_queue)].start_time = None
                           THEN s.current_time - s.processes[Head(s.ready_queue)].arrival_time
                           ELSE @,
                       !.execution_start = s.current_time,
                       !.time_used = 0],
             "Running", s.processes[Head(s.ready_queue)].pid, 0)
    ELSE s

\* "if self.execution_start is None: self.execution_start = self.current_time"
sync_step_span_start(s) ==
    IF s.running_process # None /\ s.execution_start = None
    THEN [s EXCEPT !.execution_start = s.current_time]
    ELSE s

\* the end of execute_one_step(): the clock, the guard and the value returned
sync_step_advance(s) ==
    IF s.current_time + 1 > MaxTicks
    THEN [log_event([s EXCEPT !.current_time = @ + 1], "Timeout", 0, 0)
            EXCEPT !.returned = TRUE]
    ELSE [s EXCEPT !.current_time = @ + 1, !.returned = is_simulation_complete(s)]

\* SyncDemoScheduler.execute_one_step
sync_execute_one_step(s) ==
    IF is_simulation_complete(s) THEN [s EXCEPT !.returned = TRUE]
    ELSE sync_step_advance(sync_deadlock_check(sync_execute(
             sync_step_span_start(sync_step_dispatch(handle_process_arrival(s))))))

-----------------------------------------------------------------------------
(* run() *)

\* "프로세스 선택" of run(): selection, removal from the queue and
\* self.context_switch(next_process)
run_dispatch(s) ==
    IF s.running_process = None /\ select_next_process(s) # None
    THEN LET next_process == select_next_process(s)
             s1 == context_switch(take_from_queue(s, next_process), next_process)
         IN  [s1 EXCEPT !.current_time_slice = IF s.policy \in {"RR", "MLQ"} THEN 0 ELSE @,
                        !.execution_start = s1.current_time]
    ELSE s

\* a variant of the end of an iteration that leaves the loop at the guard
\* without logging the timeout
run_advance_silent(s) ==
    LET s1 == [s EXCEPT !.current_time = @ + 1]
    IN  IF s1.current_time > MaxTicks THEN [s1 EXCEPT !.broke = TRUE] ELSE s1

\* the end of an iteration: the clock and the tick guard
run_advance(s) ==
    LET s1 == [s EXCEPT !.current_time = @ + 1]
    IN  IF s1.current_time > MaxTicks
        THEN [log_event(s1, "WARNING: Simulation timeout", 0, 0) EXCEPT !.broke = TRUE]
        ELSE s1

\* one iteration of the while loop of run()
run_iteration(s) ==
    IF s.policy = "SYNC" THEN sync_run_iteration(s)
    ELSE
    LET s1 == cpu_step(run_dispatch(checks_step(aging_step(io_completion_step(arrival_step(s))))))
    IN  IF s1.raised THEN s1 ELSE run_advance(s1)

\* the loop condition of run()
run_loop_condition(s) ==
    Len(s.terminated_processes) < Len(s.processes) /\ ~s.broke

\* RM and EDF return from run() at once when no process is eligible
run_returns_at_once(s) == s.policy \in {"RM", "EDF"} /\ s.processes = <<>>

\* the entry of run()
run_start(s) ==
    LET s1 == log_event(s, IF s.policy = "SYNC" THEN "Started" ELSE "Scheduling Started", 0, 0)
    IN  IF run_returns_at_once(s)
        THEN update_statistics(log_event(s1, "No real-time processes found", 0, 0))
        ELSE s1

\* the exit of run(): the closing log line and get_results()
run_return(s) ==
    IF s.policy = "SYNC" THEN sync_run_return(s)
    ELSE update_statistics(log_event(s, "Scheduling Completed", 0, 0))

-----------------------------------------------------------------------------
(* execute_one_step() *)

\* "문맥교환 중이면 오버헤드 처리"
context_switch_tick(s) ==
    LET s1 == [s EXCEPT !.context_switch_remaining = @ - 1]
        s2 == IF s1.context_switch_remaining = 0
              THEN LET i  == s1.context_switch_target
                       a  == [s1 EXCEPT !.in_context_switch = FALSE,
                                        !.running_process = i,
                                        !.context_switch_target = None]
                   IN  IF i # None
                       THEN [log_event([a EXCEPT !.processes[i].state = "Running"],
                                       "Running", a.processes[i].pid, 0)
                               EXCEPT !.execution_start = a.current_time,
                                      !.current_time_slice =
                                          IF s.policy \in {"RR", "MLQ"} THEN 0 ELSE @]
                       ELSE a
              ELSE s1
    IN  [s2 EXCEPT !.current_time = @ + 1, !.returned = FALSE]

\* the condition under which execute_one_step() bills a dispatch as a switch
step_switch_is_billed(s, next_process) ==
    /\ s.previous_process # None
    /\ s.processes[s.previous_process].pid # s.processes[next_process].pid
    /\ CONTEXT_SWITCH_OVERHEAD > 0

\* "문맥교환 시작": the branch of execute_one_step() that starts a switch
step_start_switch(s, next_process) ==
    LET s1 == log_event([s EXCEPT !.stats.context_switches = @ + 1], "Context Switch",
                        s.processes[s.previous_process].pid, s.processes[next_process].pid)
        s2 == add_to_gantt_chart(s1, CS_PID, s1.current_time,
                                 s1.current_time + CONTEXT_SWITCH_OVERHEAD, "Context Switching")
    IN  [s2 EXCEPT !.in_context_switch = TRUE,
                   !.context_switch_remaining = CONTEXT_SWITCH_OVERHEAD,
                   !.context_switch_target = next_process,
                   !.previous_process = next_process,
                   !.current_time_slice = IF s.policy = "MLQ" THEN 0 ELSE @,
                   !.current_time = @ + 1,
                   !.returned = FALSE]

\* the else branch: the selected process runs at once
step_dispatch_direct(s, next_process) ==
    LET s1 == [s EXCEPT !.running_process = next_process,
                        !.processes[next_process].state = "Running"]
        s2 == IF s.previous_process = None
              THEN log_event(s1, "Running", s.processes[next_process].pid, 0)
              ELSE s1
    IN  [s2 EXCEPT !.previous_process = next_process,
                   !.current_time_slice = IF s.policy \in {"RR", "MLQ"} THEN 0 ELSE @,
                   !.execution_start = s.current_time]

\* the end of a step: the clock, the tick guard and the return value
step_advance(s) ==
    LET s1 == [s EXCEPT !.current_time = @ + 1]
    IN  IF s1.current_time > MaxTicks
        THEN [log_event(s1, "WARNING: Simulation timeout", 0, 0) EXCEPT !.returned = TRUE]
        ELSE [s1 EXCEPT !.returned = is_simulation_complete(s1)]

\* execute_one_step()
execute_one_step(s) ==
    IF s.policy = "SYNC" THEN sync_execute_one_step(s)
    ELSE IF s.policy \in {"RM", "EDF"} /\ s.processes = <<>> THEN [s EXCEPT !.returned = TRUE]
    ELSE IF is_simulation_complete(s) THEN [s EXCEPT !.returned = TRUE]
    ELSE IF s.in_context_switch THEN context_switch_tick(s)
    ELSE
    LET s1 == checks_step(aging_step(io_completion_step(arrival_step(s))))
        next_process == select_next_process(s1)
        dispatching == s1.running_process = None /\ next_process # None
        s2 == IF dispatching THEN take_from_queue(s1, next_process) ELSE s1
    IN  IF dispatching /\ step_switch_is_billed(s2, next_process)
        THEN step_start_switch(s2, next_process)
        ELSE LET s3 == IF dispatching THEN step_dispatch_direct(s2, next_process) ELSE s2
                 s4 == cpu_step(s3)
             IN  IF s4.raised THEN s4 ELSE step_advance(s4)

-----------------------------------------------------------------------------
(* Construction *)

\* a variant of the constructors' filter that keeps every process
rt_filter_keep_all(processes, policy) == processes

\* the constructor of the scheduler class: a deep copy of the list, which
\* RateMonotonicScheduler and EDFScheduler filter first
RECURSIVE rt_filter(_, _)
rt_filter(processes, policy) ==
    IF processes = <<>> THEN <<>>
    ELSE LET p == Head(processes)
             keep == (policy = "RM" /\ p.period > 0) \/ (policy = "EDF" /\ p.deadline > 0)
         IN  (IF keep THEN <<p>> ELSE <<>>) \o rt_filter(Tail(processes), policy)

Scheduler(cfg, processes) ==
    IF cfg.policy = "SYNC" THEN SyncDemoScheduler(processes, cfg.buffer_size, cfg.rounds)
    ELSE
    BaseScheduler(cfg.policy,
                  copy_all(IF cfg.policy \in {"RM", "EDF"} THEN rt_filter(processes, cfg.policy)
                           ELSE processes),
                  cfg.time_slice, cfg.aging_factor)

-----------------------------------------------------------------------------
(* Inputs *)

\* process descriptors the workloads are built from
ProcessTemplates ==
    { [arrival_time |-> 0, priority |-> 2, execution_pattern |-> <<2>>,       period |-> 3, deadline |-> 5],
      [arrival_time |-> 0, priority |-> 1, execution_pattern |-> <<1, 1, 1>>, period |-> 2, deadline |-> 4],
      [arrival_time |-> 1, priority |-> 1, execution_pattern |-> <<1>>,       period |-> 2, deadline |-> 2],
      [arrival_time |-> 1, priority |-> 2, execution_pattern |-> <<2, 1>>,    period |-> 0, deadline |-> 0],
      [arrival_time |-> 2, priority |-> 1, execution_pattern |-> <<1>>,       period |-> 1, deadline |-> 1],
      [arrival_time |-> 0, priority |-> 3, execution_pattern |-> <<3>>,       period |-> 4, deadline |-> 0] }

\* a CPU-bound descriptor, for the worked examples of the specification
CpuBound(arrival_time, burst) ==
    [arrival_time |-> arrival_time, priority |-> 1, execution_pattern |-> <<burst>>,
     period |-> 10, deadline |-> 20]

FcfsExample == <<CpuBound(0, 5), CpuBound(1, 3)>>
SrtfExample == <<CpuBound(0, 8), CpuBound(1, 4)>>
RrExample == <<CpuBound(0, 10), CpuBound(0, 10)>>

\* a process long enough to use up the quanta of both upper levels of the
\* multi-level queue, with a late arrival at each of the two lower levels
MlqExample == <<CpuBound(0, 27), CpuBound(10, 2), CpuBound(28, 1)>>

\* a process alone, long enough to stay on the CPU at the lowest level for
\* more ticks than the first quantum
MlqAloneExample == <<CpuBound(0, 34)>>

\* a process that leaves for I/O after it has been demoted, beside a short one
MlqIoExample == <<[CpuBound(0, 9) EXCEPT !.execution_pattern = <<9, 1, 1>>], CpuBound(0, 2)>>

\* an I/O burst longer than one tick, beside two CPU-bound processes
IoExample ==
    <<[CpuBound(0, 1) EXCEPT !.execution_pattern = <<1, 2, 1>>], CpuBound(0, 2), CpuBound(1, 1)>>

Workloads ==
    {<<a, b, c>> : a \in ProcessTemplates, b \in ProcessTemplates, c \in ProcessTemplates}
        \cup {FcfsExample, SrtfExample, RrExample, MlqExample, MlqAloneExample, MlqIoExample,
              IoExample}

\* the lists given to the synchronisation demo: producer and consumer chosen
\* by priority (P2 produces, P1 consumes), both by the fallbacks, the same
\* process chosen twice from a list of two, and a list of one process
SyncWorkloads ==
    { << [CpuBound(0, 2) EXCEPT !.priority = 5], [CpuBound(1, 3) EXCEPT !.priority = 2] >>,
      FcfsExample,
      << [CpuBound(0, 2) EXCEPT !.priority = 5], [CpuBound(0, 2) EXCEPT !.priority = 4] >>,
      << CpuBound(1, 3) >> }

\* the process list handed to the constructors: pids are 1, 2, ... in list order
ProcessList(w) ==
    [i \in 1..Len(w) |->
        Process(i, w[i].arrival_time, w[i].priority, w[i].execution_pattern,
                w[i].period, w[i].deadline)]

\* the scheduler classes with their constructor parameters
Configs ==
    { [policy |-> pol, time_slice |-> DefaultTimeSlice, aging_factor |-> DefaultAgingFactor] :
          pol \in Policies }
        \cup { [policy |-> "RR", time_slice |-> 2, aging_factor |-> DefaultAgingFactor],
               [policy |-> "AGING", time_slice |-> DefaultTimeSlice, aging_factor |-> 1] }

\* the synchronisation demo with its constructor parameters
SyncConfigs ==
    { [policy |-> "SYNC", time_slice |-> SYNC_TIME_SLICE, aging_factor |-> DefaultAgingFactor,
       buffer_size |-> b, rounds |-> r] : b \in 1..2, r \in 1..2 }

-----------------------------------------------------------------------------
(* The driver *)

\* no SyncManager has been constructed by a client, and no call made
NoManager == [semaphores |-> <<>>, mutexes |-> <<>>]
NoCall == [op |-> "none"]

\* the scheduler's process with the pid of process j of the caller's list
SamePid(s, j) == {i \in 1..Len(s.processes) : s.processes[i].pid = processes_in[j].pid}

\* the caller's process list once a handler has left the scheduler as s: a
\* caller's object that the scheduler holds itself (no copy was made) shows
\* what the handler did to it
caller_processes(s) ==
    [j \in 1..Len(processes_in) |->
        IF ~create_process_copy(processes_in[j]).fresh /\ SamePid(s, j) # {}
        THEN s.processes[CHOOSE i \in SamePid(s, j) : TRUE]
        ELSE processes_in[j]]

Init ==
    /\ CONTEXT_SWITCH_OVERHEAD \in 0..MaxOverhead
    /\ config \in Configs \cup SyncConfigs
    /\ \E w \in (IF config.policy = "SYNC" THEN SyncWorkloads ELSE Workloads) :
          processes_in = ProcessList(w)
    /\ sched = Scheduler(config, processes_in)
    /\ pc = "constructed"
    /\ run_result = sched
    /\ extra_calls = 0
    /\ manager = NoManager
    /\ call = NoCall

\* the driver calls run() on the scheduler it constructed
RunStart ==
    /\ pc = "constructed"
    /\ sched' = run_start(sched)
    /\ pc' = IF run_returns_at_once(sched) THEN "run_returned" ELSE "run_loop"
    /\ processes_in' = caller_processes(sched')
    /\ UNCHANGED <<config, CONTEXT_SWITCH_OVERHEAD, run_result, extra_calls, manager, call>>

\* one iteration of the loop of run()
RunIteration ==
    /\ pc = "run_loop"
    /\ ~sched.raised
    /\ run_loop_condition(sched)
    /\ sched' = run_iteration(sched)
    /\ processes_in' = caller_processes(sched')
    /\ UNCHANGED <<config, CONTEXT_SWITCH_OVERHEAD, pc, run_result, extra_calls, manager, call>>

\* the loop of run() is left and run() returns its results
RunReturn ==
    /\ pc = "run_loop"
    /\ ~sched.raised
    /\ ~run_loop_condition(sched)
    /\ sched' = run_return(sched)
    /\ pc' = "run_returned"
    /\ processes_in' = caller_processes(sched')
    /\ UNCHANGED <<config, CONTEXT_SWITCH_OVERHEAD, run_result, extra_calls, manager, call>>

\* the driver keeps the finished scheduler and constructs a second one of the
\* same class from the same process list, to be stepped
Reconstruct ==
    /\ pc = "run_returned"
    /\ run_result' = sched
    /\ sched' = Scheduler(config, processes_in)
    /\ pc' = "stepping"
    /\ processes_in' = caller_processes(sched')
    /\ UNCHANGED <<config, CONTEXT_SWITCH_OVERHEAD, extra_calls, manager, call>>

\* one call of execute_one_step()
ExecuteOneStep ==
    /\ pc = "stepping"
    /\ ~sched.raised
    /\ sched.returned => extra_calls < MaxExtraCalls
    /\ sched.current_time <= StepHorizon
    /\ sched' = execute_one_step(sched)
    /\ extra_calls' = IF sched.returned THEN extra_calls + 1 ELSE extra_calls
    /\ processes_in' = caller_processes(sched')
    /\ UNCHANGED <<config, CONTEXT_SWITCH_OVERHEAD, pc, run_result, manager, call>>

Next == RunStart \/ RunIteration \/ RunReturn \/ Reconstruct \/ ExecuteOneStep

Spec == Init /\ [][Next]_vars

-----------------------------------------------------------------------------
(* A client that reads the results again: it calls run() and then           *)
(* get_results() on the scheduler that run() has left.                      *)

\* the client calls get_results() at most MaxResultCalls times
MaxResultCalls == 2

\* scheduler.get_results() after run() has returned
GetResults ==
    /\ pc = "run_returned"
    /\ ~sched.raised
    /\ call = NoCall \/ (call.op = "get_results" /\ call.n < MaxResultCalls)
    /\ sched' = get_results(sched).self
    /\ call' = [op |-> "get_results", n |-> IF call = NoCall THEN 1 ELSE call.n + 1,
                statistics |-> get_results(sched).statistics]
    /\ processes_in' = caller_processes(sched')
    /\ UNCHANGED <<config, CONTEXT_SWITCH_OVERHEAD, pc, run_result, extra_calls, manager>>

ResultsNext == RunStart \/ RunIteration \/ RunReturn \/ GetResults

ResultsSpec == Init /\ [][ResultsNext]_vars

-----------------------------------------------------------------------------
(* A client of SyncManager: it makes a manager, gets three mutexes from it, *)
(* has the processes of its list lock and unlock them, and asks for         *)
(* deadlocks.                                                               *)

\* the names the client gives its mutexes
MutexNames == {"a", "b", "c"}

\* the client's process list
ClientProcesses == <<CpuBound(0, 2), CpuBound(0, 2), CpuBound(0, 2)>>

\* the driver is idle: only processes_in is used, by the client
IdleDriver ==
    /\ CONTEXT_SWITCH_OVERHEAD = 0
    /\ config = [policy |-> "FCFS", time_slice |-> DefaultTimeSlice,
                 aging_factor |-> DefaultAgingFactor]
    /\ processes_in = ProcessList(ClientProcesses)
    /\ sched = Scheduler(config, processes_in)
    /\ run_result = sched
    /\ extra_calls = 0

\* the number of entries in the wait queues of the mutexes of a manager
Waiters(sync_manager) ==
    SumSeq([k \in 1..Len(sync_manager.mutexes) |-> Len(sync_manager.mutexes[k].wait_queue)])

ManagerInit ==
    /\ IdleDriver
    /\ pc = "manager_client"
    /\ manager = get_mutex(get_mutex(get_mutex(NewSyncManager, "a"), "b"), "c")
    /\ call = NoCall

\* sync_manager.get_mutex(name)
GetMutex ==
    /\ pc = "manager_client"
    /\ \E name \in MutexNames :
          /\ manager' = get_mutex(manager, name)
          /\ call' = [op |-> "get_mutex", result |-> <<name>>]
    /\ UNCHANGED <<sched, config, processes_in, CONTEXT_SWITCH_OVERHEAD, pc, run_result, extra_calls>>

\* mutex.try_lock(proc) on mutex k of the manager
TryLock ==
    /\ pc = "manager_client"
    /\ \E k \in 1..Len(manager.mutexes), p \in 1..Len(processes_in) :
          /\ manager' = [manager EXCEPT !.mutexes[k] = try_lock(@, p, processes_in).self]
          /\ Waiters(manager') <= MaxMutexWaiters
          /\ call' = [op |-> "try_lock",
                      result |-> <<try_lock(manager.mutexes[k], p, processes_in).result>>]
    /\ UNCHANGED <<sched, config, processes_in, CONTEXT_SWITCH_OVERHEAD, pc, run_result, extra_calls>>

\* mutex.unlock() on mutex k of the manager
Unlock ==
    /\ pc = "manager_client"
    /\ \E k \in 1..Len(manager.mutexes) :
          /\ manager' = [manager EXCEPT !.mutexes[k] = unlock(@).self]
          /\ call' = [op |-> "unlock", result |-> <<unlock(manager.mutexes[k]).result>>]
    /\ UNCHANGED <<sched, config, processes_in, CONTEXT_SWITCH_OVERHEAD, pc, run_result, extra_calls>>

\* sync_manager.detect_deadlock()
DetectDeadlock ==
    /\ pc = "manager_client"
    /\ call' = [op |-> "detect_deadlock", result |-> detect_deadlock(manager, processes_in)]
    /\ UNCHANGED <<sched, config, processes_in, CONTEXT_SWITCH_OVERHEAD, pc, run_result, extra_calls,
                   manager>>

ManagerNext == GetMutex \/ TryLock \/ Unlock \/ DetectDeadlock

ManagerSpec == ManagerInit /\ [][ManagerNext]_vars

-----------------------------------------------------------------------------
(* A client of Semaphore: it gets a semaphore from a manager and has the    *)
(* processes of its list wait on it and signal it, in any order.            *)

SemaphoreInit ==
    /\ IdleDriver
    /\ pc = "semaphore_client"
    /\ \E initial \in 0..MaxSemInitial : manager = get_semaphore(NewSyncManager, "s", initial)
    /\ call = NoCall

\* sem.wait(proc)
SemWait ==
    /\ pc = "semaphore_client"
    /\ \E p \in 1..Len(processes_in) :
          /\ manager' = [manager EXCEPT !.semaphores.s = wait(@, p).self]
          /\ call' = [op |-> "wait", proc |-> p, result |-> <<wait(manager.semaphores.s, p).result>>]
    /\ Len(manager'.semaphores.s.wait_queue) <= MaxSemWaiters
    /\ UNCHANGED <<sched, config, processes_in, CONTEXT_SWITCH_OVERHEAD, pc, run_result, extra_calls>>

\* sem.signal()
SemSignal ==
    /\ pc = "semaphore_client"
    /\ manager' = [manager EXCEPT !.semaphores.s = signal(@).self]
    /\ manager'.semaphores.s.value <= MaxSemValue
    /\ call' = [op |-> "signal", proc |-> None, result |-> <<signal(manager.semaphores.s).result>>]
    /\ UNCHANGED <<sched, config, processes_in, CONTEXT_SWITCH_OVERHEAD, pc, run_result, extra_calls>>

SemaphoreNext == SemWait \/ SemSignal

SemaphoreSpec == SemaphoreInit /\ [][SemaphoreNext]_vars

-----------------------------------------------------------------------------
(* The two clients above side by side: a behaviour is that of a client of   *)
(* Semaphore or that of a client of the mutexes of a SyncManager.           *)

PrimitivesInit == SemaphoreInit \/ ManagerInit

PrimitivesNext == SemaphoreNext \/ ManagerNext

PrimitivesSpec == PrimitivesInit /\ [][PrimitivesNext]_vars

-----------------------------------------------------------------------------
(* A client of the synchronisation demo: before it steps the scheduler it   *)
(* gets mutexes of its own from scheduler.sync_manager and has the          *)
(* scheduler's processes lock them; then it calls execute_one_step().       *)

\* the names the client gives its mutexes
DemoMutexNames == {"x", "y"}

\* the client has not started to step the scheduler
NotStepped == pc = "stepping" /\ sched.current_time = 0 /\ sched.event_log = <<>>

DemoClientInit ==
    /\ CONTEXT_SWITCH_OVERHEAD = 0
    /\ config \in SyncConfigs
    /\ \E w \in SyncWorkloads : processes_in = ProcessList(w)
    /\ sched = Scheduler(config, processes_in)
    /\ pc = "stepping"
    /\ run_result = sched
    /\ extra_calls = 0
    /\ manager = NoManager
    /\ call = NoCall

\* scheduler.sync_manager.get_mutex(name)
DemoGetMutex ==
    /\ NotStepped
    /\ \E name \in DemoMutexNames :
          sched' = [sched EXCEPT !.sync_manager = get_mutex(@, name)]
    /\ UNCHANGED <<config, processes_in, CONTEXT_SWITCH_OVERHEAD, pc, run_result, extra_calls,
                   manager, call>>

\* mutex.try_lock(p) for a mutex of scheduler.sync_manager and a process of
\* scheduler.processes
DemoTryLock ==
    /\ NotStepped
    /\ \E k \in 1..Len(sched.sync_manager.mutexes), p \in 1..Len(sched.processes) :
          sched' = [sched EXCEPT !.sync_manager.mutexes[k] = try_lock(@, p, sched.processes).self]
    /\ Waiters(sched'.sync_manager) <= MaxMutexWaiters
    /\ UNCHANGED <<config, processes_in, CONTEXT_SWITCH_OVERHEAD, pc, run_result, extra_calls,
                   manager, call>>

\* mutex.unlock() for a mutex of scheduler.sync_manager
DemoUnlock ==
    /\ NotStepped
    /\ \E k \in 1..Len(sched.sync_manager.mutexes) :
          sched' = [sched EXCEPT !.sync_manager.mutexes[k] = unlock(@).self]
    /\ UNCHANGED <<config, processes_in, CONTEXT_SWITCH_OVERHEAD, pc, run_result, extra_calls,
                   manager, call>>

DemoClientNext == DemoGetMutex \/ DemoTryLock \/ DemoUnlock \/ ExecuteOneStep

DemoClientSpec == DemoClientInit /\ [][DemoClientNext]_vars

-----------------------------------------------------------------------------
(* A client of the engine calls: while run() loops (or before it starts) it  *)
(* calls Process.execute() or start_io_operation() itself on one of the      *)
(* scheduler's processes and catches the ValueError. A call that raised      *)
(* leaves the client free to go on; after a call that went through it stops. *)

\* process.execute() called by the client on process i
ClientExecute ==
    /\ pc \in {"constructed", "run_loop"}
    /\ ~sched.raised
    /\ \E i \in 1..Len(sched.processes) :
          /\ sched' = [execute_call(sched, i) EXCEPT !.raised = FALSE]
          /\ call' = [op |-> "execute", proc |-> i, raised |-> execute_call(sched, i).raised]
          /\ pc' = IF execute_call(sched, i).raised THEN pc ELSE "called"
    /\ UNCHANGED <<config, processes_in, CONTEXT_SWITCH_OVERHEAD, run_result, extra_calls, manager>>

\* scheduler.start_io_operation(process) called by the client on process i
ClientStartIo ==
    /\ pc \in {"constructed", "run_loop"}
    /\ ~sched.raised
    /\ \E i \in 1..Len(sched.processes) :
          /\ sched' = [start_io_operation(sched, i) EXCEPT !.raised = FALSE]
          /\ call' = [op |-> "start_io_operation", proc |-> i,
                      raised |-> start_io_operation(sched, i).raised]
          /\ pc' = IF start_io_operation(sched, i).raised THEN pc ELSE "called"
    /\ UNCHANGED <<config, processes_in, CONTEXT_SWITCH_OVERHEAD, run_result, extra_calls, manager>>

ContractNext == RunStart \/ RunIteration \/ ClientExecute \/ ClientStartIo

ContractSpec == Init /\ [][ContractNext]_vars

-----------------------------------------------------------------------------
(* Properties of the engine *)

\* process i of s.processes has been terminated by s
IsTerminated(s, i) == InSeq(s.terminated_processes, i)

\* process i is held somewhere by s: in a ready queue, on the CPU, the target
\* of a context switch in progress, in an I/O, or terminated
Admitted(s, i) ==
    \/ InSeq(s.ready_queue, i)
    \/ \E l \in 1..3 : InSeq(s.queues[l], i)
    \/ s.running_process = i
    \/ s.context_switch_target = i
    \/ \E k \in 1..Len(s.io_completion_queue) : s.io_completion_queue[k][2] = i
    \/ IsTerminated(s, i)

\* the scheduler being stepped has reported completion
StepDone == pc = "stepping" /\ sched.returned

\* C1: once the clock has passed the arrival time of a process, the process
\* has been admitted to a ready queue: no arrival is missed, under any
\* policy, in run() and in execute_one_step(), for any overhead
C1_NoArrivalMissed ==
    \A i \in 1..Len(sched.processes) :
        sched.processes[i].arrival_time < sched.current_time => Admitted(sched, i)

\* C2: run() and repeated execute_one_step() end with every process
\* Terminated and never because the tick guard was exceeded
C2_EveryProcessTerminates ==
    /\ pc = "run_returned" => ~sched.broke /\ is_simulation_complete(sched)
    /\ StepDone => is_simulation_complete(sched) /\ sched.current_time <= MaxTicks

\* what C3 compares of a finished scheduler
FinalState(s) ==
    [ times |-> [i \in 1..Len(s.processes) |->
                    <<s.processes[i].finish_time, s.processes[i].start_time,
                      s.processes[i].response_time>>],
      current_time |-> s.current_time,
      context_switches |-> s.stats.context_switches,
      cpu_busy_time |-> s.stats.cpu_busy_time,
      gantt_chart |-> s.gantt_chart ]

\* C3: stepping a scheduler with execute_one_step() until it returns True
\* leaves the final state that run() leaves for the same class and list
C3_StepEqualsRun == StepDone => FinalState(sched) = FinalState(run_result)

\* the total duration of the Running intervals the Gantt chart holds for pid
RECURSIVE RunningTime(_, _)
RunningTime(gantt_chart, pid) ==
    IF gantt_chart = <<>> THEN 0
    ELSE (IF Head(gantt_chart).pid = pid /\ Head(gantt_chart).state = "Running"
          THEN Head(gantt_chart).end_time - Head(gantt_chart).start_time ELSE 0)
         + RunningTime(Tail(gantt_chart), pid)

\* C4: for every terminated process the Running intervals of its pid add
\* up to its total CPU demand, in run() and in execute_one_step()
C4_GanttEqualsDemand ==
    \A i \in 1..Len(sched.processes) :
        IsTerminated(sched, i) =>
            RunningTime(sched.gantt_chart, sched.processes[i].pid)
                = get_total_burst_time(sched.processes[i])

\* the number of dispatches whose pid differs from the preceding dispatch's
RECURSIVE PidChanges(_)
PidChanges(history) ==
    IF Len(history) < 2 THEN 0
    ELSE (IF history[1] # history[2] THEN 1 ELSE 0) + PidChanges(Tail(history))

\* C5: at every point context_switches is the number of dispatches whose
\* pid differs from that of the dispatch before, for every overhead
C5_SwitchesArePidChanges ==
    sched.stats.context_switches = PidChanges(sched.dispatch_history)

\* C6: for every terminated process turnaround_time = finish_time -
\* arrival_time >= total CPU demand and waiting_time = turnaround_time -
\* total CPU demand >= 0, whether it terminated after a CPU burst or at an
\* I/O completion
C6_TurnaroundAndWaiting ==
    \A i \in 1..Len(sched.processes) :
        IsTerminated(sched, i) =>
            LET p == sched.processes[i]
                demand == get_total_burst_time(p)
            IN  /\ p.turnaround_time = p.finish_time - p.arrival_time
                /\ p.turnaround_time >= demand
                /\ p.waiting_time = p.turnaround_time - demand
                /\ p.waiting_time >= 0

\* a process that ended with a CPU burst and one that ended with an I/O have
\* both terminated, one of them after waiting
C6_Witness ==
    \E i, j \in 1..Len(sched.processes) :
        /\ IsTerminated(sched, i) /\ Len(sched.processes[i].execution_pattern) % 2 = 1
        /\ IsTerminated(sched, j) /\ Len(sched.processes[j].execution_pattern) % 2 = 0
        /\ sched.processes[i].waiting_time > 0

\* C7: every terminated process has a start_time and a response_time, and
\* response_time = start_time - arrival_time, in run() and in
\* execute_one_step()
C7_StartAndResponseSet ==
    \A i \in 1..Len(sched.processes) :
        IsTerminated(sched, i) =>
            /\ sched.processes[i].start_time # None
            /\ sched.processes[i].response_time # None
            /\ sched.processes[i].response_time
                   = sched.processes[i].start_time - sched.processes[i].arrival_time

\* C8: current_burst_index never exceeds len(execution_pattern) and equals
\* it exactly when the process is Terminated
C8_BurstIndexTracksTermination ==
    \A i \in 1..Len(sched.processes) :
        /\ sched.processes[i].current_burst_index <= Len(sched.processes[i].execution_pattern)
        /\ sched.processes[i].current_burst_index = Len(sched.processes[i].execution_pattern)
               <=> sched.processes[i].state = "Terminated"

\* the pids that entered the ready queue, in the order of the log entries
\* that record an arrival or the end of an I/O
RECURSIVE ReadyQueueEntries(_)
ReadyQueueEntries(event_log) ==
    IF event_log = <<>> THEN <<>>
    ELSE (IF Head(event_log)[2] \in {"arrived", "I/O completed"}
          THEN <<Head(event_log)[3]>> ELSE <<>>) \o ReadyQueueEntries(Tail(event_log))

IsPrefix(s, t) == Len(s) <= Len(t) /\ \A k \in 1..Len(s) : s[k] = t[k]

\* the Running intervals of a Gantt chart as (pid, start, end)
RECURSIVE RunningIntervals(_)
RunningIntervals(gantt_chart) ==
    IF gantt_chart = <<>> THEN <<>>
    ELSE (IF Head(gantt_chart).state = "Running"
          THEN << <<Head(gantt_chart).pid, Head(gantt_chart).start_time,
                    Head(gantt_chart).end_time>> >>
          ELSE <<>>) \o RunningIntervals(Tail(gantt_chart))

\* FCFS dispatches in the order of entry into the ready queue
FcfsOrder ==
    config.policy = "FCFS" =>
        IsPrefix(sched.dispatch_history, ReadyQueueEntries(sched.event_log))

\* the worked example: FCFS, overhead 0, P1(0,[5]), P2(1,[3])
FcfsExampleResult ==
    /\ config.policy = "FCFS" /\ CONTEXT_SWITCH_OVERHEAD = 0
    /\ processes_in = ProcessList(FcfsExample)
    /\ pc = "run_returned" \/ StepDone
    => /\ RunningIntervals(sched.gantt_chart) = << <<1, 0, 5>>, <<2, 5, 8>> >>
       /\ sched.processes[2].waiting_time = 4

\* under FCFS the running process leaves the CPU only by completing its burst
FcfsNotPreempted ==
    /\ config.policy = "FCFS" /\ pc' = pc
    /\ sched.running_process # None
    /\ sched'.running_process # sched.running_process
    => sched'.processes[sched.running_process].current_burst_index
           > sched.processes[sched.running_process].current_burst_index

\* C9: FCFS dispatches in ready-queue order and never preempts; with
\* overhead 0, P1(0,[5]) and P2(1,[3]) give the Running intervals
\* (1,0,5), (2,5,8) and waiting_time(P2) = 4
C9_FcfsOrderAndExample ==
    [](FcfsOrder /\ FcfsExampleResult) /\ [][FcfsNotPreempted]_vars

\* run() has finished the worked FCFS example
C9_Witness ==
    /\ config.policy = "FCFS" /\ CONTEXT_SWITCH_OVERHEAD = 0
    /\ processes_in = ProcessList(FcfsExample)
    /\ pc = "run_returned"
    /\ sched.dispatch_history = <<1, 2>>
    /\ Len(sched.terminated_processes) = 2

\* the worked example: SRTF, overhead 0, P1(0,[8]), P2(1,[4])
SrtfCase ==
    /\ config.policy = "SJF" /\ CONTEXT_SWITCH_OVERHEAD = 0
    /\ processes_in = ProcessList(SrtfExample)

\* P1 is preempted at t=1, P2 runs and finishes at t=5, P1 then resumes and
\* completes at t = p1_completion
SrtfTimeline(p1_completion) ==
    SrtfCase =>
        /\ sched.current_time >= 2 =>
              /\ InSeq(sched.event_log, <<1, "preempted", 1, 0>>)
              /\ RunningIntervals(sched.gantt_chart)[1] = <<1, 0, 1>>
        /\ sched.current_time \in 2..4 => sched.running_process = 2
        /\ IsTerminated(sched, 2) =>
              /\ sched.processes[2].finish_time = 5
              /\ RunningIntervals(sched.gantt_chart)[2] = <<2, 1, 5>>
        /\ IsTerminated(sched, 1) =>
              /\ sched.processes[1].finish_time = p1_completion
              /\ RunningIntervals(sched.gantt_chart)[3] = <<1, 5, p1_completion>>

\* C10 as stated: in the SRTF example P1 is preempted at t=1, P2 finishes at
\* t=5 and P1 completes at t=9
C10_SrtfExampleAsStated == SrtfTimeline(9)

\* C10 amended: in the SRTF example P1 is preempted at t=1, P2 finishes at
\* t=5 and P1, with 7 ticks left, completes at t=12
C10_SrtfExample == SrtfTimeline(12)

\* run() has finished the worked SRTF example
C10_Witness ==
    /\ SrtfCase
    /\ pc = "run_returned"
    /\ sched.dispatch_history = <<1, 2, 1>>
    /\ Len(sched.terminated_processes) = 2

\* the scheduler is a Round Robin inside run() or being stepped
RrTick == config.policy = "RR" /\ pc \in {"run_loop", "stepping"} /\ pc' = pc

\* the slice counter never passes the quantum
RrSliceBounded ==
    config.policy = "RR" => sched.current_time_slice <= sched.time_slice

\* the slice counter counts the ticks executed since the dispatch
RrCounterCountsTicks ==
    /\ RrTick
    /\ sched'.dispatch_history = sched.dispatch_history
    /\ sched.running_process # None
    /\ sched'.stats.cpu_busy_time = sched.stats.cpu_busy_time + 1
    => \/ sched'.current_time_slice = sched.current_time_slice + 1
       \/ sched'.running_process = None /\ sched'.current_time_slice = 0

\* a process that has used its quantum goes to the tail of the ready queue,
\* behind the arrivals of that tick, and the CPU is dispatched anew
RrExpiry ==
    /\ RrTick
    /\ sched.running_process # None
    /\ sched.current_time_slice >= sched.time_slice
    => LET i == sched.running_process
       IN  /\ InSeq(sched'.event_log,
                    <<sched.current_time, "time slice expired", sched.processes[i].pid, 0>>)
           /\ Len(sched'.dispatch_history) = Len(sched.dispatch_history) + 1
           /\ \/ /\ sched'.ready_queue # <<>>
                 /\ sched'.ready_queue[Len(sched'.ready_queue)] = i
                 /\ sched'.processes[i].state = "Ready"
              \/ /\ sched'.ready_queue = <<>>
                 /\ sched'.dispatch_history[Len(sched'.dispatch_history)] = sched.processes[i].pid
           /\ \A j \in 1..Len(sched.processes) :
                 sched.processes[j].arrival_time = sched.current_time => Admitted(sched', j)

\* the slice counter restarts at 0 with a dispatch: after the tick of the
\* dispatch it is the number of ticks the dispatched process has executed
RrDispatchResets ==
    /\ RrTick
    /\ sched'.dispatch_history # sched.dispatch_history
    => sched'.current_time_slice =
           IF sched'.running_process # None
                  /\ sched'.stats.cpu_busy_time > sched.stats.cpu_busy_time
           THEN 1 ELSE 0

\* the worked example: Round Robin, q = 4, overhead 0, P1(0,[10]), P2(0,[10])
RrCase ==
    /\ config.policy = "RR" /\ config.time_slice = 4 /\ CONTEXT_SWITCH_OVERHEAD = 0
    /\ processes_in = ProcessList(RrExample)

RrExampleResult ==
    RrCase /\ (pc = "run_returned" \/ StepDone)
    => /\ RunningIntervals(sched.gantt_chart) =
              << <<1, 0, 4>>, <<2, 4, 8>>, <<1, 8, 12>>, <<2, 12, 16>>, <<1, 16, 18>>, <<2, 18, 20>> >>
       /\ sched.processes[2].finish_time = 20
       /\ sched.current_time = 20

\* C11: under Round Robin no dispatch executes more than q consecutive ticks;
\* a process that used q ticks is requeued at the tail, behind the arrivals
\* of the meantime, and the counter restarts at 0 on the next dispatch; with
\* q = 4, overhead 0 and two processes of burst 10 arriving at 0 the two
\* alternate every 4 ticks and the last one finishes at t = 20
C11_RoundRobinQuantum ==
    /\ [](RrSliceBounded /\ RrExampleResult)
    /\ [][RrCounterCountsTicks /\ RrExpiry /\ RrDispatchResets]_vars

\* run() has finished the worked Round Robin example
C11_Witness ==
    /\ RrCase
    /\ pc = "run_returned"
    /\ sched.dispatch_history = <<1, 2, 1, 2, 1, 2>>
    /\ Len(sched.terminated_processes) = 2

\* the scheduler is a real-time one (Rate Monotonic or EDF)
RealTime == config.policy \in {"RM", "EDF"}

\* process p of the input list is eligible for the real-time policy
Eligible(p) == IF config.policy = "RM" THEN p.period > 0 ELSE p.deadline > 0

\* the pids of the eligible input processes
EligiblePids == {processes_in[i].pid : i \in {k \in 1..Len(processes_in) : Eligible(processes_in[k])}}

\* the process set is exactly the eligible input processes, in input order
RtProcessSet ==
    RealTime =>
        /\ {sched.processes[i].pid : i \in 1..Len(sched.processes)} = EligiblePids
        /\ Len(sched.processes) = Cardinality(EligiblePids)
        /\ \A i \in 1..Len(sched.processes) :
              /\ sched.processes[i].execution_pattern
                     = processes_in[sched.processes[i].pid].execution_pattern
              /\ \A j \in 1..(i - 1) : sched.processes[j].pid < sched.processes[i].pid

\* an excluded process is in no Gantt interval, no dispatch and no result
RtExcludedAbsent ==
    RealTime =>
        /\ \A k \in 1..Len(sched.gantt_chart) :
              sched.gantt_chart[k].pid \in EligiblePids \cup {IDLE_PID, CS_PID}
        /\ \A k \in 1..Len(sched.dispatch_history) : sched.dispatch_history[k] \in EligiblePids
        /\ \A k \in 1..Len(sched.event_log) :
              sched.event_log[k][2] \in {"arrived", "Terminated", "preempted", "I/O"}
                  => sched.event_log[k][3] \in EligiblePids

\* with no eligible process run() has returned with nothing done
RtEmptyRun ==
    RealTime /\ EligiblePids = {} /\ pc = "run_returned"
    => /\ sched.processes = <<>>
       /\ sched.current_time = 0
       /\ sched.gantt_chart = <<>>
       /\ sched.terminated_processes = <<>>
       /\ sched.stats.process_count = 0
       /\ ~sched.raised

\* with no eligible process run() returns without entering its loop, and
\* execute_one_step() returns True and changes nothing
RtEmptyCalls ==
    RealTime /\ EligiblePids = {}
    => /\ pc = "constructed" => pc' = "run_returned"
       /\ pc = "stepping" /\ pc' = "stepping" =>
              /\ sched'.returned
              /\ sched' = [sched EXCEPT !.returned = TRUE]

\* C12: the process set of Rate Monotonic is exactly the input processes
\* with period > 0, that of EDF those with deadline > 0; an excluded process
\* appears in no queue, Gantt interval or result; with no eligible process
\* run() returns at once with zero processes, current_time 0 and an empty
\* Gantt chart, and execute_one_step() returns True at its first call
\* without changing state
C12_RealTimeProcessSet ==
    /\ [](RtProcessSet /\ RtExcludedAbsent /\ RtEmptyRun)
    /\ [][RtEmptyCalls]_vars

\* Rate Monotonic has run a list of three to the end without the one process
\* of period 0
C12_Witness ==
    /\ config.policy = "RM"
    /\ pc = "run_returned"
    /\ Len(processes_in) = 3 /\ Len(sched.processes) = 2
    /\ Len(sched.terminated_processes) = 2
    /\ sched.gantt_chart # <<>>

\* the timeout line of the class: "WARNING: Simulation timeout" of the eight
\* policies, "Timeout" of the synchronisation demo
TimeoutLogged(s) ==
    \E k \in 1..Len(s.event_log) :
        /\ s.event_log[k][1] = s.current_time
        /\ s.event_log[k][2] = IF s.policy = "SYNC" THEN "Timeout"
                               ELSE "WARNING: Simulation timeout"

\* run() is executing or has returned
InRun == pc \in {"run_loop", "run_returned"}

\* while run() loops no exception is raised and the clock is within the
\* guard unless the loop has just been left by it; the guard case logs the
\* timeout; what run() returns are the processes terminated so far with
\* the statistics over them
RunGuard ==
    InRun =>
        /\ ~sched.raised
        /\ ~sched.broke => sched.current_time <= MaxTicks
        /\ sched.broke =>
              /\ sched.current_time > MaxTicks
              /\ sched.current_time <= MaxTicks + 1 + CONTEXT_SWITCH_OVERHEAD
              /\ TimeoutLogged(sched)
        /\ pc = "run_returned" =>
              /\ is_simulation_complete(sched) \/ sched.broke
              /\ sched.stats.process_count = Len(sched.terminated_processes)
              /\ sched.stats.total_simulation_time = sched.current_time
              /\ \A k \in 1..Len(sched.terminated_processes) :
                    sched.processes[sched.terminated_processes[k]].state = "Terminated"

\* once the guard is exceeded, or every process is Terminated, the next
\* statement of run() is its return
RunLeavesLoop ==
    pc = "run_loop" /\ (sched.broke \/ is_simulation_complete(sched))
    => pc' = "run_returned"

\* every iteration of the loop of run() moves the clock forward
RunProgress ==
    pc = "run_loop" /\ pc' = "run_loop" => sched'.current_time > sched.current_time

\* C13: run() always terminates: it returns when every process is Terminated
\* or as soon as current_time exceeds the tick guard; in the guard case a
\* timeout line is logged and the partial Gantt chart, the statistics and
\* the processes terminated so far are returned without an exception.
\* Termination is by a variant: no iteration raises, every iteration
\* increases current_time, and the loop is left once the clock has passed
\* the guard, so run() makes at most guard + 1 iterations.
C13_RunTerminates ==
    /\ []RunGuard
    /\ [][RunLeavesLoop /\ RunProgress]_vars

\* run() has returned by the guard with some of its processes terminated
C13_Witness ==
    /\ pc = "run_returned"
    /\ sched.broke
    /\ TimeoutLogged(sched)
    /\ sched.terminated_processes # <<>>
    /\ ~is_simulation_complete(sched)
    /\ sched.gantt_chart # <<>>

\* the policies that select by a key
KeyedPolicies == {"SJF", "PRIORITY", "AGING", "RM", "EDF"}

\* the selection key of the policy with arrival_time as its second component
SelectionKey(s, i) ==
    CASE s.policy = "SJF" -> sjf_key(s, i)
      [] s.policy \in {"PRIORITY", "AGING"} -> priority_key(s, i)
      [] s.policy = "RM" -> rm_key(s, i)
      [] s.policy = "EDF" -> edf_key(s, i)

\* the scheduler as the tick that starts in s finds it at "프로세스 선택"
AtSelection(s) == checks_step(aging_step(io_completion_step(arrival_step(s))))

\* the next tick of the scheduler reaches the selection
TickSelects ==
    /\ pc \in {"run_loop", "stepping"}
    /\ ~sched.raised /\ ~sched.broke /\ ~sched.returned
    /\ ~is_simulation_complete(sched)
    /\ ~sched.in_context_switch
    /\ AtSelection(sched).running_process = None
    /\ AtSelection(sched).ready_queue # <<>>

\* C14: in the keyed policies, among the ready processes that tie on the
\* selection key and on arrival_time the one selected is the first in
\* construction order (the position in the input list), in every reachable
\* state
C14_TieBreakByConstructionOrder ==
    config.policy \in KeyedPolicies /\ TickSelects =>
        LET s1 == AtSelection(sched)
            selected == select_next_process(s1)
        IN  \A k \in 1..Len(s1.ready_queue) :
                SelectionKey(s1, s1.ready_queue[k]) = SelectionKey(s1, selected)
                    => selected <= s1.ready_queue[k]

\* the wait-for graph of a manager: an edge from each waiter of a mutex to
\* the owner of that mutex, self-edges excluded (pairs of pids)
WaitForGraph(sync_manager, processes) ==
    UNION { { <<processes[sync_manager.mutexes[m].wait_queue[k]].pid,
                processes[sync_manager.mutexes[m].owner].pid>> :
                  k \in {j \in 1..Len(sync_manager.mutexes[m].wait_queue) :
                             /\ sync_manager.mutexes[m].owner # None
                             /\ sync_manager.mutexes[m].wait_queue[j]
                                    # sync_manager.mutexes[m].owner} } :
            m \in 1..Len(sync_manager.mutexes) }

\* the transitive closure of a graph
RECURSIVE Closure(_)
Closure(g) ==
    LET step == g \cup {<<x[1][1], x[2][2]>> : x \in {y \in g \X g : y[1][2] = y[2][1]}}
    IN  IF step = g THEN g ELSE Closure(step)

HasCycle(g) == \E e \in Closure(g) : e[1] = e[2]

\* c is a cycle of g: every pid has an edge to the next, the last to the first
IsCycle(c, g) ==
    c # <<>> /\ \A k \in 1..Len(c) : <<c[k], c[(k % Len(c)) + 1]>> \in g

\* C15: for every configuration of mutex owners and wait queues,
\* detect_deadlock() returns a non-empty list exactly when the wait-for
\* graph has a directed cycle, and a non-empty result is a cycle of it
C15_DeadlockDetection ==
    call.op = "detect_deadlock" =>
        /\ call.result # <<>> <=> HasCycle(WaitForGraph(manager, processes_in))
        /\ call.result # <<>> => IsCycle(call.result, WaitForGraph(manager, processes_in))

\* detect_deadlock() has returned a cycle of three processes
C15_Witness ==
    /\ call.op = "detect_deadlock"
    /\ Len(call.result) = 3
    /\ Len(manager.mutexes) = 3

\* the call of execute_one_step() that has just returned aborted a process
\* to recover from a deadlock
JustRecovered ==
    /\ pc = "stepping"
    /\ \E k \in 1..Len(sched.event_log) :
          /\ sched.event_log[k][1] = sched.current_time - 1
          /\ sched.event_log[k][2] = "DEADLOCK RECOVERY"

\* C16: when the deadlock recovery of the demo scheduler has force-terminated
\* the lowest-pid process of a cycle, the victim's edges have left the
\* wait-for graph: detect_deadlock() called again at once on the same
\* SyncManager returns no cycle
C16_RecoveryClearsCycle ==
    JustRecovered => detect_deadlock(sched.sync_manager, sched.processes) = <<>>

\* a call of wait: True and one less when the count is > 0, otherwise the
\* caller joins the end of the wait list, the count stays and False
WaitContract ==
    pc = "semaphore_client" /\ call'.op = "wait" =>
        IF manager.semaphores.s.value > 0
        THEN /\ call'.result = <<TRUE>>
             /\ manager'.semaphores.s.value = manager.semaphores.s.value - 1
             /\ manager'.semaphores.s.wait_queue = manager.semaphores.s.wait_queue
        ELSE /\ call'.result = <<FALSE>>
             /\ manager'.semaphores.s.value = manager.semaphores.s.value
             /\ manager'.semaphores.s.wait_queue
                    = Append(manager.semaphores.s.wait_queue, call'.proc)

\* a call of signal: with waiters, the one that blocked first is returned
\* and removed and the count stays; without, the count grows by 1 and
\* nothing is returned
SignalContract ==
    pc = "semaphore_client" /\ call'.op = "signal" =>
        IF manager.semaphores.s.wait_queue # <<>>
        THEN /\ call'.result = <<manager.semaphores.s.wait_queue[1]>>
             /\ manager'.semaphores.s.value = manager.semaphores.s.value
             /\ manager'.semaphores.s.wait_queue = Tail(manager.semaphores.s.wait_queue)
        ELSE /\ call'.result = <<None>>
             /\ manager'.semaphores.s.value = manager.semaphores.s.value + 1
             /\ manager'.semaphores.s.wait_queue = <<>>

\* C17: for any sequence of wait and signal calls, wait returns True and
\* decrements the count exactly when the count is > 0 and otherwise appends
\* the caller to the wait list and returns False; signal returns the
\* process waiting longest (FIFO) and leaves the count when the wait list
\* is non-empty, and otherwise increments the count and returns nothing
C17_SemaphoreContract == [][WaitContract /\ SignalContract]_vars

\* signal has woken the first of several waiters
C17_Witness ==
    /\ pc = "semaphore_client"
    /\ call.op = "signal"
    /\ call.result # <<None>>
    /\ manager.semaphores.s.wait_queue # <<>>
    /\ manager.semaphores.s.wait_queue[1] # call.result[1]

\* the scheduler is the synchronisation demo inside run() or being stepped
SyncTick == config.policy = "SYNC" /\ pc \in {"run_loop", "stepping"} /\ pc' = pc

\* the processes of the demo that are in the CRITICAL phase
InCritical ==
    IF config.policy = "SYNC"
    THEN {i \in 1..Len(sched.processes) : sched.processes[i].sync_phase = "CRITICAL"}
    ELSE {}

\* at most one process is in the CRITICAL phase
AtMostOneCritical == Cardinality(InCritical) <= 1

\* a process in the CRITICAL phase is the owner of the mutex
CriticalOwnsMutex ==
    \A i \in InCritical : sched.sync_manager.mutexes[1].owner = i

\* a tick in which the owner gives the mutex up hands it to the oldest
\* waiter, which leaves the wait list, or frees it when nobody waits
OwnershipPassesFifo ==
    /\ SyncTick
    /\ sched.sync_manager.mutexes[1].owner # None
    /\ sched'.sync_manager.mutexes[1].owner # sched.sync_manager.mutexes[1].owner
    => IF sched.sync_manager.mutexes[1].wait_queue # <<>>
       THEN /\ sched'.sync_manager.mutexes[1].owner =
                   Head(sched.sync_manager.mutexes[1].wait_queue)
            /\ sched'.sync_manager.mutexes[1].wait_queue =
                   Tail(sched.sync_manager.mutexes[1].wait_queue)
       ELSE sched'.sync_manager.mutexes[1].owner = None

\* C18: in the synchronisation demo at most one process is in the CRITICAL
\* phase at every tick, a process in the CRITICAL phase is the current owner
\* of the mutex, and ownership passes from the unlocking process directly to
\* the oldest blocked waiter (FIFO) and to nobody else
C18_MutualExclusion ==
    /\ [](AtMostOneCritical /\ CriticalOwnsMutex)
    /\ [][OwnershipPassesFifo]_vars

\* execute() called on a process that is_cpu_burst() rejects (an odd burst
\* index: an I/O burst, or the end of a pattern of odd length) raises and
\* changes nothing
ExecuteRejected ==
    /\ call'.op = "execute"
    /\ call' # call
    /\ \E i \in 1..Len(sched.processes) : call'.proc = i /\ ~is_cpu_burst(sched.processes[i])
    => call'.raised /\ sched' = sched

\* start_io_operation() called on a process that is_io_burst() rejects (an
\* even burst index: a CPU burst, or the end of a pattern of even length)
\* raises and changes nothing
StartIoRejected ==
    /\ call'.op = "start_io_operation"
    /\ call' # call
    /\ \E i \in 1..Len(sched.processes) : call'.proc = i /\ ~is_io_burst(sched.processes[i])
    => call'.raised /\ sched' = sched

\* C19: Process.execute() called on a process whose current burst is not a
\* CPU burst, and start_io_operation() called on a process whose current
\* burst is not an I/O burst, each fail with an error and leave the process
\* and the scheduler (remaining_burst_time, state, queues,
\* io_completion_queue, Gantt chart, event log) as they were
C19_InvalidCallsRejected == [][ExecuteRejected /\ StartIoRejected]_vars

\* execute() has just been refused on a process waiting for its I/O and
\* start_io_operation() is about to be refused on a ready process
C19_Witness ==
    /\ pc = "run_loop"
    /\ call.op = "execute" /\ call.raised
    /\ sched.processes[call.proc].state = "Waiting"
    /\ is_io_burst(sched.processes[call.proc])
    /\ \E j \in 1..Len(sched.processes) :
          /\ sched.processes[j].state = "Ready"
          /\ start_io_operation(sched, j).raised

\* two Gantt entries of one process share no time
Disjoint(a, b) == a.end_time <= b.start_time \/ b.end_time <= a.start_time

\* C20: in the Gantt trace no two intervals recorded for the same pid overlap
\* in time, the Running intervals and the Waiting intervals recorded for I/O
\* bursts counted alike
C20_GanttNonOverlappingPerPid ==
    \A a \in 1..Len(sched.gantt_chart) : \A b \in 1..Len(sched.gantt_chart) :
        /\ a < b
        /\ sched.gantt_chart[a].pid = sched.gantt_chart[b].pid
        /\ sched.gantt_chart[a].pid >= 1
        => Disjoint(sched.gantt_chart[a], sched.gantt_chart[b])

\* the processes that are in an I/O burst: in state Waiting with an entry
\* pending in io_completion_queue
InIoBurst ==
    {i \in 1..Len(sched.processes) :
        /\ sched.processes[i].state = "Waiting"
        /\ \E k \in 1..Len(sched.io_completion_queue) : sched.io_completion_queue[k][2] = i}

\* how many times process i stands in waiting_queue
TimesWaiting(i) ==
    Cardinality({k \in 1..Len(sched.waiting_queue) : sched.waiting_queue[k] = i})

\* C21: at every tick boundary waiting_queue holds exactly the processes that
\* are in an I/O burst (state Waiting, an entry pending in
\* io_completion_queue), each once; a process whose I/O has completed or that
\* has terminated is no longer in it
C21_WaitingQueueIsIoSet ==
    config.policy # "SYNC" =>
        \A i \in 1..Len(sched.processes) :
            TimesWaiting(i) = IF i \in InIoBurst THEN 1 ELSE 0

\* process p has every field as Process.__init__ left it
Untouched(p) ==
    p = Process(p.pid, p.arrival_time, p.initial_priority, p.execution_pattern,
                p.period, p.deadline)

\* the caller's process objects are as the caller constructed them
InputUntouched == \A j \in 1..Len(processes_in) : Untouched(processes_in[j])

\* C22: constructing a scheduler from a process list and running it leaves
\* every field of the caller's process objects unchanged, so that a second
\* scheduler built from the same list starts from the processes a fresh
\* list would give it
C22_CallerProcessesUnchanged ==
    /\ []InputUntouched
    /\ [][processes_in' = processes_in]_vars
    /\ [][pc = "run_returned" /\ pc' = "stepping"
            => \A i \in 1..Len(sched'.processes) :
                   sched'.policy # "SYNC" => Untouched(sched'.processes[i])]_vars

\* run() has returned, having run processes to termination, and a second
\* scheduler has been built from the same list
C22_Witness ==
    /\ pc = "stepping"
    /\ sched.current_time = 0
    /\ run_result.terminated_processes # <<>>
    /\ Len(run_result.terminated_processes) = Len(run_result.processes)
    /\ \E i \in 1..Len(run_result.processes) : ~Untouched(run_result.processes[i])

\* the positions of the context-switch intervals in a Gantt chart
SwitchEntries(gantt) == {k \in 1..Len(gantt) : gantt[k].pid = CS_PID}

\* the context-switch interval recorded last
LastSwitch(gantt) ==
    gantt[CHOOSE k \in SwitchEntries(gantt) : \A j \in SwitchEntries(gantt) : j <= k]

\* a dispatch is billed as a context switch in this tick, with overhead > 0
SwitchBilled ==
    /\ pc \in {"run_loop", "stepping"} /\ pc' = pc
    /\ CONTEXT_SWITCH_OVERHEAD > 0
    /\ sched'.stats.context_switches = sched.stats.context_switches + 1

\* the billed switch is recorded as the interval [t, t+k) of pid -2, t the
\* tick of the dispatch
SwitchRecorded ==
    SwitchBilled =>
        /\ Cardinality(SwitchEntries(sched'.gantt_chart))
               = Cardinality(SwitchEntries(sched.gantt_chart)) + 1
        /\ LastSwitch(sched'.gantt_chart).start_time = sched.current_time
        /\ LastSwitch(sched'.gantt_chart).end_time = sched.current_time + CONTEXT_SWITCH_OVERHEAD

\* when the tick that bills the switch also executes the candidate (run()),
\* the executed tick is [t+k, t+k+1)
SwitchThenTick ==
    SwitchBilled /\ sched'.stats.cpu_busy_time = sched.stats.cpu_busy_time + 1
        => sched'.current_time = sched.current_time + CONTEXT_SWITCH_OVERHEAD + 1

\* while the switch is in progress (execute_one_step()) the clock is inside
\* the recorded interval: the tick that starts at t+k is not a switch tick
SwitchTakesOverhead ==
    sched.in_context_switch =>
        /\ SwitchEntries(sched.gantt_chart) # {}
        /\ sched.current_time < LastSwitch(sched.gantt_chart).end_time

\* C23: when a dispatch is billed as a context switch with overhead k > 0 at
\* tick t, exactly k ticks are consumed by the switch, the candidate executes
\* its first CPU tick of that dispatch during [t+k, t+k+1), and the recorded
\* interval of pid -2 is exactly [t, t+k), in run() and in execute_one_step()
C23_SwitchConsumesOverhead ==
    /\ []SwitchTakesOverhead
    /\ [][SwitchRecorded /\ SwitchThenTick]_vars

\* the scheduler as the tick of run() that starts in s finds it at
\* "CPU 실행": arrivals, I/O completions, the checks and the dispatch done
RunBeforeCpu(s) == run_dispatch(AtSelection(s))

\* the dispatch of execute_one_step() when it starts no billed switch
StepDispatch(s1) ==
    IF s1.running_process = None /\ select_next_process(s1) # None
    THEN step_dispatch_direct(take_from_queue(s1, select_next_process(s1)),
                              select_next_process(s1))
    ELSE s1

\* the tick of execute_one_step() that starts in s reaches "CPU 실행": it is
\* no switching tick and starts no billed switch
StepReachesCpu(s) ==
    /\ ~s.in_context_switch
    /\ ~is_simulation_complete(s)
    /\ ~(AtSelection(s).running_process = None
           /\ select_next_process(AtSelection(s)) # None
           /\ step_switch_is_billed(AtSelection(s), select_next_process(AtSelection(s))))

\* the scheduler as that tick finds it at "CPU 실행"
StepBeforeCpu(s) == StepDispatch(AtSelection(s))

\* the next tick of the scheduler reaches "CPU 실행"
TickReachesCpu ==
    /\ config.policy # "SYNC"
    /\ ~sched.raised /\ sched.processes # <<>>
    /\ \/ pc = "run_loop" /\ run_loop_condition(sched)
       \/ pc = "stepping" /\ ~sched.returned /\ StepReachesCpu(sched)

\* the scheduler at "CPU 실행" of its next tick
BeforeCpu == IF pc = "run_loop" THEN RunBeforeCpu(sched) ELSE StepBeforeCpu(sched)

\* the next tick executes a CPU tick of the process Executing
ExecutesCpuTick == TickReachesCpu /\ BeforeCpu.running_process # None

Executing == BeforeCpu.processes[BeforeCpu.running_process]

\* the processes in the ready queue while that CPU tick is executed
ReadyAtCpu == {BeforeCpu.processes[BeforeCpu.ready_queue[k]] : k \in 1..Len(BeforeCpu.ready_queue)}

\* the scheduler of the next tick after arrivals, I/O completions and aging,
\* before the preemption check
BeforeChecks == aging_step(io_completion_step(arrival_step(sched)))

\* the processes in the ready queue at the preemption check
ReadyAtChecks ==
    {BeforeChecks.processes[BeforeChecks.ready_queue[k]] : k \in 1..Len(BeforeChecks.ready_queue)}

\* the process that has the CPU when the next tick starts keeps it
KeepsCpu == BeforeCpu.running_process = sched.running_process

\* under SRTF no ready process has a strictly smaller remaining time of its
\* CPU burst than the process executing the tick
SrtfShortestRuns ==
    config.policy = "SJF" /\ ExecutesCpuTick =>
        \A q \in ReadyAtCpu : q.remaining_burst_time >= Executing.remaining_burst_time

\* under SRTF a ready process with equal remaining time does not preempt
SrtfNoPreemptionOnTie ==
    /\ config.policy = "SJF" /\ TickReachesCpu
    /\ sched.running_process # None
    /\ \A q \in ReadyAtChecks :
           q.remaining_burst_time >= sched.processes[sched.running_process].remaining_burst_time
    => KeepsCpu

\* C24: under SRTF, at every tick in which a process executes a CPU tick no
\* process in the ready queue has a strictly smaller remaining time of its
\* current CPU burst than the executing process had at the start of the tick,
\* and a ready process with equal remaining time does not preempt
C24_SrtfShortestRemainingRuns == SrtfShortestRuns /\ SrtfNoPreemptionOnTie

\* the next SRTF tick executes a process while a ready process with the same
\* remaining time waits, and the process had the CPU before
C24_Witness ==
    /\ config.policy = "SJF" /\ ExecutesCpuTick
    /\ sched.running_process # None /\ KeepsCpu
    /\ \E q \in ReadyAtCpu : q.remaining_burst_time = Executing.remaining_burst_time
    /\ \E q \in ReadyAtCpu : q.remaining_burst_time > Executing.remaining_burst_time

\* under static Priority the priority of every process is its initial_priority
PriorityFixed ==
    config.policy = "PRIORITY" =>
        \A i \in 1..Len(sched.processes) :
            sched.processes[i].priority = sched.processes[i].initial_priority

\* under static Priority no ready process has a strictly lower priority
\* number than the process executing the tick
PriorityHighestRuns ==
    config.policy = "PRIORITY" /\ ExecutesCpuTick =>
        \A q \in ReadyAtCpu : q.priority >= Executing.priority

\* C25: under static Priority scheduling every process's priority equals its
\* initial_priority for the whole run, and at every tick in which a process
\* executes a CPU tick no process in the ready queue has a strictly lower
\* priority number than the executing process
C25_StaticPriorityRuns == PriorityFixed /\ PriorityHighestRuns

\* the next tick of a Priority scheduler takes the CPU from the process that
\* has it and executes a process of strictly higher priority
C25_Witness ==
    /\ config.policy = "PRIORITY" /\ ExecutesCpuTick
    /\ sched.running_process # None /\ ~KeepsCpu
    /\ Executing.priority < sched.processes[sched.running_process].priority
    /\ ReadyAtCpu # {}

\* under EDF no ready process has a strictly earlier absolute deadline than
\* the process executing the tick
EdfEarliestRuns ==
    config.policy = "EDF" /\ ExecutesCpuTick =>
        \A q \in ReadyAtCpu :
            q.arrival_time + q.deadline >= Executing.arrival_time + Executing.deadline

\* the absolute deadline of an EDF process is arrival_time + deadline
EdfAbsoluteDeadline ==
    config.policy = "EDF" =>
        \A i \in 1..Len(sched.processes) :
            sched.processes[i].absolute_deadline
                = sched.processes[i].arrival_time + sched.processes[i].deadline

\* C26: under EDF, at every tick in which a process executes a CPU tick no
\* process in the ready queue has a strictly earlier absolute_deadline
\* (arrival_time + deadline) than the executing process
C26_EdfEarliestDeadlineRuns == EdfAbsoluteDeadline /\ EdfEarliestRuns

\* the next tick of an EDF scheduler takes the CPU from the process that has
\* it and executes a process with a strictly earlier absolute deadline
C26_Witness ==
    /\ config.policy = "EDF" /\ ExecutesCpuTick
    /\ sched.running_process # None /\ ~KeepsCpu
    /\ Executing.absolute_deadline < sched.processes[sched.running_process].absolute_deadline
    /\ ReadyAtCpu # {}

\* the next tick of a Priority-with-Aging scheduler makes an aging pass
AgingPass ==
    /\ config.policy = "AGING" /\ ~sched.raised
    /\ \/ pc = "run_loop" /\ run_loop_condition(sched)
       \/ pc = "stepping" /\ ~sched.returned
            /\ ~sched.in_context_switch /\ ~is_simulation_complete(sched)

\* the processes in the ready queue at that aging pass
AgedProcesses == {BeforeChecks.ready_queue[k] : k \in 1..Len(BeforeChecks.ready_queue)}

\* the aging passes process i has spent in the ready queue since its last
\* dispatch (or its arrival), the coming pass included
PassesWaited(i) == sched.processes[i].total_waiting_time_for_aging + 1

\* the priority the aging formula gives process i after the coming pass
AgedPriority(i) ==
    Max2(0, sched.processes[i].initial_priority - (PassesWaited(i) \div sched.aging_factor))

\* after the aging pass every ready process has the priority of the formula
AgingFormula ==
    AgingPass => \A i \in AgedProcesses : BeforeChecks.processes[i].priority = AgedPriority(i)

\* the process the tick dispatches, if any (pids are unique)
Dispatched ==
    IF Len(sched'.dispatch_history) > Len(sched.dispatch_history)
    THEN {i \in 1..Len(sched.processes) :
             sched.processes[i].pid = sched'.dispatch_history[Len(sched'.dispatch_history)]}
    ELSE {}

\* over a tick with an aging pass: a dispatched process gets its initial
\* priority back and starts counting from 0, a process that stays in the
\* ready queue has counted one more pass and has the priority of the
\* formula, and no other process changes its count or its priority
AgingTick ==
    AgingPass /\ pc' = pc =>
        \A i \in 1..Len(sched.processes) :
            IF i \in Dispatched
            THEN /\ sched'.processes[i].priority = sched.processes[i].initial_priority
                 /\ sched'.processes[i].total_waiting_time_for_aging = 0
            ELSE IF i \in AgedProcesses
            THEN /\ sched'.processes[i].priority = AgedPriority(i)
                 /\ sched'.processes[i].total_waiting_time_for_aging = PassesWaited(i)
            ELSE /\ sched'.processes[i].priority = sched.processes[i].priority
                 /\ sched'.processes[i].total_waiting_time_for_aging
                        = sched.processes[i].total_waiting_time_for_aging

\* the priority is never negative and never above initial_priority
AgingBounds ==
    config.policy = "AGING" =>
        \A i \in 1..Len(sched.processes) :
            /\ sched.processes[i].priority >= 0
            /\ sched.processes[i].priority <= sched.processes[i].initial_priority

\* C27: under Priority-with-Aging with aging_factor f >= 1, after the aging
\* pass of each tick every process in the ready queue has priority
\* max(0, initial_priority - (w div f)), w the number of aging passes it has
\* spent in the ready queue since its last dispatch (or its arrival); dispatch
\* resets the priority to initial_priority and w to 0; the priority is never
\* negative and never above initial_priority
C27_AgingFormula ==
    /\ [](AgingFormula /\ AgingBounds)
    /\ [][AgingTick]_vars

\* a ready process has waited more passes than its initial priority pays for:
\* the formula is floored at 0, while another process is dispatched
C27_Witness ==
    /\ AgingPass
    /\ \E i \in AgedProcesses :
          /\ sched.processes[i].initial_priority - (PassesWaited(i) \div sched.aging_factor) < 0
          /\ BeforeChecks.processes[i].priority = 0
    /\ BeforeCpu.running_process # None
    /\ BeforeCpu.running_process # sched.running_process

\* the call of execute_one_step() that has just returned ended a context
\* switch: the dispatched process has the CPU and has not executed yet
JustSwitchedIn ==
    /\ pc = "stepping"
    /\ sched.running_process # None
    /\ sched.gantt_chart # <<>>
    /\ sched.gantt_chart[Len(sched.gantt_chart)].pid = CS_PID
    /\ sched.event_log # <<>>
    /\ sched.event_log[Len(sched.event_log)]
           = <<sched.current_time - 1, "Running", sched.processes[sched.running_process].pid, 0>>

\* a process dispatched through a context switch executes a CPU tick at the
\* next tick
SwitchedInExecutes ==
    config.policy = "AGING" /\ JustSwitchedIn => ExecutesCpuTick /\ KeepsCpu

\* a process dispatched without a context switch in progress afterwards
\* executes a CPU tick in the tick of its dispatch
DispatchedExecutes ==
    /\ config.policy = "AGING"
    /\ pc \in {"run_loop", "stepping"} /\ pc' = pc
    /\ Dispatched # {}
    /\ ~sched'.in_context_switch
    => sched'.stats.cpu_busy_time = sched.stats.cpu_busy_time + 1

\* C28: under Priority-with-Aging, for every aging_factor >= 1 and every
\* context-switch overhead, no ready process starves and the scheduler never
\* livelocks: a process of the ready queue that is dispatched executes at
\* least one CPU tick, so that CPU progress is made while some process is
\* ready, in run() and in execute_one_step()
C28_AgingMakesProgress ==
    /\ []SwitchedInExecutes
    /\ [][DispatchedExecutes]_vars

-----------------------------------------------------------------------------
(* The multi-level queue *)

\* the next tick of the scheduler reaches the checks made on the running
\* process: the loop of run() goes round, or the call of execute_one_step()
\* is past its early returns
TickReachesChecks ==
    /\ config.policy # "SYNC"
    /\ ~sched.raised /\ sched.processes # <<>>
    /\ \/ pc = "run_loop" /\ run_loop_condition(sched)
       \/ pc = "stepping" /\ ~sched.returned /\ ~sched.in_context_switch
              /\ ~is_simulation_complete(sched)

\* the level of the process that has the CPU when the next tick starts
RunningLevel == sched.processes[sched.running_process].queue_level

\* at the checks of the next tick the running process has not used up its
\* quantum and a queue above its level holds a process
HigherLevelReady ==
    /\ config.policy = "MLQ" /\ TickReachesChecks
    /\ sched.running_process # None
    /\ ~(RunningLevel < 2 /\ sched.current_time_slice >= mlq_time_slices(RunningLevel))
    /\ \E l \in 0..(RunningLevel - 1) : BeforeChecks.queues[l + 1] # <<>>

\* while a process of level L executes a CPU tick, the queues of the levels
\* above L are empty
MlqHigherLevelsEmpty ==
    config.policy = "MLQ" /\ ExecutesCpuTick =>
        \A l \in 0..(Executing.queue_level - 1) : BeforeCpu.queues[l + 1] = <<>>

\* a running process that a higher level preempts is Ready at the tail of the
\* queue of its own level when the next process is selected
MlqPreemptedToOwnTail ==
    HigherLevelReady =>
        LET i == sched.running_process
        IN  /\ AtSelection(sched).running_process = None
            /\ AtSelection(sched).queues[RunningLevel + 1]
                   = Append(BeforeChecks.queues[RunningLevel + 1], i)
            /\ \A l \in 0..2 : l # RunningLevel =>
                   AtSelection(sched).queues[l + 1] = BeforeChecks.queues[l + 1]
            /\ AtSelection(sched).processes[i].queue_level = RunningLevel
            /\ AtSelection(sched).processes[i].state = "Ready"

\* C29: under MLQ, at every tick in which a process of queue level L executes
\* a CPU tick every queue of a level above L (a smaller number) is empty, and
\* a running process preempted because such a queue holds a process goes to
\* the tail of the queue of its own level L
C29_MlqLevelsAndPreemption == MlqHigherLevelsEmpty /\ MlqPreemptedToOwnTail

\* a process of level 1 or 2 is preempted by a process of a level above, and
\* that process executes the tick
C29_Witness ==
    /\ HigherLevelReady
    /\ ExecutesCpuTick
    /\ Executing.queue_level < RunningLevel
    /\ Executing.pid # sched.processes[sched.running_process].pid

\* at the checks of the next tick the running process has used up the
\* quantum of its level, 0 or 1
QuantumExpired ==
    /\ config.policy = "MLQ" /\ TickReachesChecks
    /\ sched.running_process # None
    /\ RunningLevel < 2
    /\ sched.current_time_slice >= mlq_time_slices(RunningLevel)

\* the CPU tick a process of level 0 or 1 executes is at most the 8th or the
\* 16th of its dispatch
MlqQuantumBound ==
    config.policy = "MLQ" /\ ExecutesCpuTick /\ Executing.queue_level < 2 =>
        BeforeCpu.current_time_slice < mlq_time_slices(Executing.queue_level)

\* a process that has used its quantum is Ready at the tail of the queue one
\* level down when the next process is selected, whatever the queues hold
MlqDemotedOneLevel ==
    QuantumExpired =>
        LET i == sched.running_process
            new_level == IF RunningLevel + 1 > 2 THEN 2 ELSE RunningLevel + 1
        IN  /\ AtSelection(sched).running_process = None
            /\ AtSelection(sched).queues[new_level + 1]
                   = Append(BeforeChecks.queues[new_level + 1], i)
            /\ \A l \in 0..2 : l # new_level =>
                   AtSelection(sched).queues[l + 1] = BeforeChecks.queues[l + 1]
            /\ AtSelection(sched).processes[i].queue_level = new_level
            /\ AtSelection(sched).processes[i].state = "Ready"

\* a running process of level 2 that no higher level preempts keeps the CPU
\* at its level, however long it has had it
MlqLowestLevelStays ==
    /\ config.policy = "MLQ" /\ TickReachesChecks
    /\ sched.running_process # None
    /\ RunningLevel = 2
    /\ \A l \in 0..1 : BeforeChecks.queues[l + 1] = <<>>
    => /\ AtSelection(sched).running_process = sched.running_process
       /\ AtSelection(sched).processes[sched.running_process].queue_level = 2
       /\ AtSelection(sched).queues = BeforeChecks.queues

\* the slice counter counts the CPU ticks of one dispatch: a tick executed by
\* the process that the checks left on the CPU adds one, the first tick of a
\* dispatch makes it one
SliceCountsTicks ==
    /\ config.policy = "MLQ"
    /\ pc \in {"run_loop", "stepping"} /\ pc' = pc
    /\ ExecutesCpuTick
    /\ sched'.running_process # None
    => sched'.current_time_slice
           = IF AtSelection(sched).running_process # None
             THEN sched.current_time_slice + 1 ELSE 1

\* C30: under MLQ a process dispatched from level 0 (level 1) executes at
\* most 8 (16) consecutive ticks of one dispatch; when it has used the
\* quantum without finishing its burst, the next tick moves it to the tail of
\* the queue one level down (at most 2) even when no other process is ready;
\* a process of level 2 is never taken off the CPU for quantum expiry
C30_MlqQuantaAndDemotion ==
    /\ [](MlqQuantumBound /\ MlqDemotedOneLevel /\ MlqLowestLevelStays)
    /\ [][SliceCountsTicks]_vars

\* a process of level 1 has used its 16 ticks while no other process is
\* ready, and is demoted to level 2
C30_Witness ==
    /\ QuantumExpired
    /\ RunningLevel = 1
    /\ sched.current_time_slice = MLQ_SLICE_1
    /\ \A l \in 0..2 : BeforeChecks.queues[l + 1] = <<>>
    /\ AtSelection(sched).queues[3] = <<sched.running_process>>

\* the queue level of every process is 0, 1 or 2
MlqLevelRange ==
    config.policy = "MLQ" =>
        \A i \in 1..Len(sched.processes) : sched.processes[i].queue_level \in 0..2

\* a tick raises by one the level of the running process whose quantum has
\* expired and leaves every other level as it was, whatever else it does to
\* the process: arrival, start of I/O, return from I/O, completion of a
\* burst, preemption
MlqLevelChange ==
    /\ config.policy = "MLQ"
    /\ pc \in {"run_loop", "stepping"} /\ pc' = pc
    => \A i \in 1..Len(sched.processes) :
           sched'.processes[i].queue_level
               = IF QuantumExpired /\ i = sched.running_process
                 THEN sched.processes[i].queue_level + 1
                 ELSE sched.processes[i].queue_level

\* the scheduler of the next tick after arrivals and I/O completions
AfterIoCompletion == io_completion_step(arrival_step(sched))

\* the processes whose I/O the next tick completes with a burst left
ReturnsFromIo ==
    {i \in 1..Len(sched.processes) :
        /\ config.policy = "MLQ" /\ TickReachesChecks
        /\ sched.processes[i].state = "Waiting"
        /\ AfterIoCompletion.processes[i].state = "Ready"}

\* a process returning from I/O is appended to the queue of its level and to
\* no other queue
MlqIoReturnsToOwnLevel ==
    \A i \in ReturnsFromIo :
        LET level == sched.processes[i].queue_level
        IN  /\ IsPrefix(arrival_step(sched).queues[level + 1], AfterIoCompletion.queues[level + 1])
            /\ \E k \in (Len(arrival_step(sched).queues[level + 1]) + 1)
                            ..Len(AfterIoCompletion.queues[level + 1]) :
                   AfterIoCompletion.queues[level + 1][k] = i
            /\ \A l \in 0..2 : l # level => ~InSeq(AfterIoCompletion.queues[l + 1], i)
            /\ AfterIoCompletion.processes[i].queue_level = level

\* C31: under MLQ a process's queue_level is always in {0,1,2} and never
\* decreases; arrival after the placement at level 0, an I/O burst, the
\* completion of a burst and preemption leave it unchanged, it changes only
\* by +1 on a quantum expiry, and a process returning from I/O is appended to
\* the queue of the level it had when it left the CPU
C31_MlqLevelFrame ==
    /\ [](MlqLevelRange /\ MlqIoReturnsToOwnLevel)
    /\ [][MlqLevelChange]_vars

\* a process demoted to level 1 returns from I/O
C31_Witness ==
    \E i \in ReturnsFromIo : sched.processes[i].queue_level = 1

-----------------------------------------------------------------------------
(* I/O bursts *)

\* the completion entries of process i
IoEntries(s, i) ==
    {k \in 1..Len(s.io_completion_queue) : s.io_completion_queue[k][2] = i}

\* process i is in a ready queue of the scheduler
Queued(s, i) ==
    \/ InSeq(s.ready_queue, i)
    \/ \E l \in 1..Len(s.queues) : InSeq(s.queues[l], i)

\* a process is Waiting exactly while it has a completion entry, it has one
\* entry only, it is on an I/O burst, and it is neither queued nor on the CPU
\* nor the target of a switch
WaitingHasEntry ==
    config.policy \in Policies =>
        \A i \in 1..Len(sched.processes) :
            /\ sched.processes[i].state = "Waiting" <=> IoEntries(sched, i) # {}
            /\ Cardinality(IoEntries(sched, i)) <= 1
            /\ sched.processes[i].state = "Waiting" =>
                   /\ is_io_burst(sched.processes[i])
                   /\ ~Queued(sched, i)
                   /\ sched.running_process # i
                   /\ sched.context_switch_target # i

\* the processes that finish a CPU burst in the next tick with an I/O burst
\* to follow
StartsIo ==
    {i \in 1..Len(sched.processes) :
        /\ config.policy \in Policies /\ ExecutesCpuTick
        /\ BeforeCpu.running_process = i
        /\ Executing.remaining_burst_time = 1
        /\ Executing.current_burst_index + 2 <= Len(Executing.execution_pattern)}

\* a process that finishes a CPU burst during tick t with an I/O burst of
\* duration d to follow is Waiting after the tick with the entry (t + d)
IoEntryTime ==
    /\ pc \in {"run_loop", "stepping"} /\ pc' = pc
    => \A i \in StartsIo :
           LET d == Executing.execution_pattern[Executing.current_burst_index + 2]
           IN  /\ sched'.processes[i].state = "Waiting"
               /\ sched'.io_completion_queue # <<>>
               /\ sched'.io_completion_queue[Len(sched'.io_completion_queue)]
                      = <<BeforeCpu.current_time + d, i>>

\* the tick that handles I/O completions processes the entries that are due,
\* all of them and no other: the process of a due entry has its burst index
\* advanced and is Ready in a queue or Terminated, the others stay as they are
IoProcessedWhenDue ==
    config.policy \in Policies /\ TickReachesChecks =>
        \A k \in 1..Len(sched.io_completion_queue) :
            LET entry == sched.io_completion_queue[k]
                i == entry[2]
                before == sched.processes[i]
                after == AfterIoCompletion.processes[i]
            IN  IF entry[1] <= sched.current_time
                THEN /\ IoEntries(AfterIoCompletion, i) = {}
                     /\ after.current_burst_index = before.current_burst_index + 1
                     /\ IF after.current_burst_index < Len(after.execution_pattern)
                        THEN after.state = "Ready" /\ Queued(AfterIoCompletion, i)
                        ELSE after.state = "Terminated"
                               /\ InSeq(AfterIoCompletion.terminated_processes, i)
                ELSE /\ InSeq(AfterIoCompletion.io_completion_queue, entry)
                     /\ after = before

\* a tick that does not handle I/O completions leaves the entries alone, and
\* every tick leaves the entries that are not due
IoEntriesKept ==
    /\ config.policy \in Policies
    /\ pc \in {"run_loop", "stepping"} /\ pc' = pc
    => \A k \in 1..Len(sched.io_completion_queue) :
           \/ TickReachesChecks /\ sched.io_completion_queue[k][1] <= sched.current_time
           \/ InSeq(sched'.io_completion_queue, sched.io_completion_queue[k])

\* C32: a process that finishes a CPU burst during tick t and whose next
\* burst is an I/O burst of duration d gets a completion entry for t + d and
\* is Waiting, in no ready queue and not running, until the entry is
\* processed; the entry is processed (the process Ready with its burst index
\* advanced, or Terminated) at the first tick that handles I/O completions
\* with current_time >= t + d, never earlier, and no entry is dropped
C32_IoCompletion ==
    /\ [](WaitingHasEntry /\ IoProcessedWhenDue)
    /\ [][IoEntryTime /\ IoEntriesKept]_vars

\* an entry is due while the scheduler is in a context switch: its process
\* waits for the first tick that handles I/O completions
C32_Witness ==
    /\ config.policy \in Policies
    /\ pc = "stepping" /\ sched.in_context_switch
    /\ \E k \in 1..Len(sched.io_completion_queue) :
           sched.io_completion_queue[k][1] <= sched.current_time

-----------------------------------------------------------------------------
(* The producer-consumer demo as a whole *)

\* nobody is on the CPU or ready, and every process that is not terminated
\* is Waiting: no process is left that could signal or unlock
SyncAllBlocked ==
    /\ sched.running_process = None
    /\ sched.ready_queue = <<>>
    /\ ~is_simulation_complete(sched)
    /\ \A i \in 1..Len(sched.processes) :
           ~IsTerminated(sched, i) => sched.processes[i].state = "Waiting"

\* the demo has ended: run() has returned, or execute_one_step() has
\* returned True
SyncEnded == pc = "run_returned" \/ StepDone

\* every process has finished its rounds and is terminated
SyncAllRoundsDone ==
    \A i \in 1..Len(sched.processes) :
        /\ sched.processes[i].sync_rounds_done = sched.processes[i].sync_rounds_total
        /\ sched.processes[i].state = "Terminated"
        /\ IsTerminated(sched, i)

\* C33: in the producer-consumer demo with one producer and one consumer, for
\* every buffer_size >= 1 and rounds >= 1, the run completes with both
\* processes having finished all their rounds and terminated; no state has
\* both processes blocked for ever, and the run never ends by the timeout
C33_SyncDemoCompletes ==
    config.policy = "SYNC" =>
        /\ ~SyncAllBlocked
        /\ ~TimeoutLogged(sched)
        /\ sched.current_time <= MaxTicks
        /\ SyncEnded => SyncAllRoundsDone

-----------------------------------------------------------------------------
(* Where the processes are *)

\* how many times x occurs in the sequence q
Occurrences(q, x) == Cardinality({k \in 1..Len(q) : q[k] = x})

\* how many times the scheduler holds process i: in the ready queues, in
\* the running slot, as the target of a switch, in the I/O completion queue
\* and in the terminated collection
TimesHeld(s, i) ==
    Occurrences(s.ready_queue, i)
        + Occurrences(s.queues[1], i) + Occurrences(s.queues[2], i) + Occurrences(s.queues[3], i)
        + (IF s.running_process = i THEN 1 ELSE 0)
        + (IF s.context_switch_target = i THEN 1 ELSE 0)
        + Cardinality(IoEntries(s, i))
        + Occurrences(s.terminated_processes, i)

\* the arrival of process i has been handled
HasArrived(s, i) ==
    \E k \in 1..Len(s.event_log) :
        s.event_log[k][2] = "arrived" /\ s.event_log[k][3] = s.processes[i].pid

\* an admitted process is held exactly once, a process not yet admitted is
\* held nowhere
HeldOnce ==
    \A i \in 1..Len(sched.processes) :
        TimesHeld(sched, i) = IF HasArrived(sched, i) THEN 1 ELSE 0

\* the Running process is the one in the running slot, so there is one at most
OneRunning ==
    \A i \in 1..Len(sched.processes) :
        sched.processes[i].state = "Running" => sched.running_process = i

\* the terminated collection only grows, by processes that were not in it
TerminatedOnce ==
    /\ pc \in {"run_loop", "stepping"} /\ pc' = pc
    => /\ IsPrefix(sched.terminated_processes, sched'.terminated_processes)
       /\ \A i \in 1..Len(sched.processes) :
              Occurrences(sched'.terminated_processes, i) <= 1

\* C34: in every reachable state of every policy's engine each admitted
\* process is in exactly one place (one ready queue, the running slot, the
\* context-switch target, the io_completion_queue or the terminated
\* collection), no process appears twice, at most one process is running, and
\* no process is added to the terminated collection more than once
C34_ExactlyOnePlace ==
    /\ [](config.policy \in Policies => HeldOnce /\ OneRunning)
    /\ [][config.policy \in Policies => TerminatedOnce]_vars

\* three processes in three different places: one is the target of a context
\* switch, one is in an I/O and one is in the ready queue
C34_Witness ==
    /\ config.policy \in Policies
    /\ sched.context_switch_target # None
    /\ sched.io_completion_queue # <<>>
    /\ sched.ready_queue # <<>>
    /\ \A i \in 1..Len(sched.processes) : HasArrived(sched, i)

-----------------------------------------------------------------------------
(* The contracts of Process.execute and start_io_operation in the engine *)

\* the process that executes the next CPU tick is on a CPU burst with time
\* left, and so is the process in the running slot between two ticks
RunningOnCpuBurst ==
    /\ ExecutesCpuTick =>
           is_cpu_burst(Executing) /\ Executing.remaining_burst_time > 0
    /\ sched.running_process # None =>
           /\ is_cpu_burst(sched.processes[sched.running_process])
           /\ sched.processes[sched.running_process].remaining_burst_time > 0

\* no handler of the engine has been aborted by a contract violation
NoContractError == ~sched.raised

\* no remaining burst time is negative
RemainingNonNegative ==
    \A i \in 1..Len(sched.processes) : sched.processes[i].remaining_burst_time >= 0

\* C35: for inputs with positive bursts, under every policy, the process in
\* the running slot is on a CPU burst with remaining_burst_time > 0 when it
\* executes, start_io_operation is only invoked on a process on an I/O
\* burst, so the errors of Process.execute and start_io_operation are not
\* reached, and remaining_burst_time is never negative
C35_ContractsHoldInEngine ==
    config.policy \in Policies /\ pc \in {"run_loop", "run_returned", "stepping"} =>
        /\ RunningOnCpuBurst
        /\ NoContractError
        /\ RemainingNonNegative
        /\ \A i \in StartsIo : is_io_burst(complete_current_burst(execute(Executing)))

\* a process that returned from an I/O executes the first tick of its next
\* CPU burst
C35_Witness ==
    /\ config.policy \in Policies
    /\ ExecutesCpuTick
    /\ Executing.current_burst_index = 2
    /\ Executing.remaining_burst_time = Executing.execution_pattern[3]

-----------------------------------------------------------------------------
(* The state of the primitives *)

\* the count of a semaphore is never negative, and processes wait on it only
\* while it is 0
SemaphoreState ==
    \A name \in DOMAIN manager.semaphores :
        /\ manager.semaphores[name].value >= 0
        /\ manager.semaphores[name].wait_queue # <<>> => manager.semaphores[name].value = 0

\* processes wait on a mutex only while it has an owner
MutexState ==
    \A k \in 1..Len(manager.mutexes) :
        manager.mutexes[k].wait_queue # <<>> => manager.mutexes[k].owner # None

\* C36: after any sequence of wait and signal calls on a Semaphore created
\* with an initial count >= 0 and an empty wait list, the count is >= 0 and
\* the wait list is non-empty only when the count is 0; after any sequence
\* of try_lock and unlock calls on a Mutex, the wait list is non-empty only
\* when the mutex has an owner
C36_PrimitiveStates == SemaphoreState /\ MutexState

\* unlock has handed a mutex to its first waiter while another one waits
C36_Witness ==
    /\ pc = "manager_client"
    /\ call.op = "unlock" /\ call.result # <<None>>
    /\ \E k \in 1..Len(manager.mutexes) :
           manager.mutexes[k].wait_queue # <<>> /\ manager.mutexes[k].owner # None

-----------------------------------------------------------------------------
(* The buffer of the producer-consumer demo *)

\* the rounds completed by the processes of a role
RoundsDone(role) ==
    SumSeq([i \in 1..Len(sched.processes) |->
               IF sched.processes[i].sync_role = role
               THEN sched.processes[i].sync_rounds_done ELSE 0])

\* the items produced and not yet consumed
Unconsumed == RoundsDone("producer") - RoundsDone("consumer")

\* C37: in the sync demo, at every tick the number of completed producer
\* rounds minus the number of completed consumer rounds is between 0 and
\* buffer_size: the consumer never completes a round for an item that has
\* not been produced, and the producer never has more than buffer_size
\* unconsumed items
C37_BufferBounds ==
    config.policy = "SYNC" => Unconsumed >= 0 /\ Unconsumed <= config.buffer_size

\* the buffer is full and the producer is blocked on it with rounds left
C37_Witness ==
    /\ config.policy = "SYNC"
    /\ Unconsumed = config.buffer_size
    /\ \E i \in 1..Len(sched.processes) :
           /\ sched.processes[i].sync_role = "producer"
           /\ sched.processes[i].state = "Waiting"
           /\ sched.processes[i].sync_phase = "IDLE"

-----------------------------------------------------------------------------
(* Reading the results *)

\* the statistics that the last call of get_results() reported: the call the
\* client made, or the one run() made when it returned
Reported ==
    IF call # NoCall /\ call.op = "get_results" THEN call.statistics
    ELSE calculate_averages(sched.stats)

\* the sum of the waiting, turnaround and response times of the terminated
\* processes
TerminatedTotals ==
    LET done == sched.terminated_processes
    IN  [ waiting |-> SumSeq([k \in 1..Len(done) |-> sched.processes[done[k]].waiting_time]),
          turnaround |-> SumSeq([k \in 1..Len(done) |-> sched.processes[done[k]].turnaround_time]),
          response |-> SumSeq([k \in 1..Len(done) |-> sched.processes[done[k]].response_time]) ]

\* the quotient kept as the pair q is the mean of n values whose sum is total
IsMean(q, total, n) == q[1] * n = total * q[2]

\* the three averages reported are the means over the terminated processes
ReportsMeans ==
    pc = "run_returned" /\ sched.terminated_processes # <<>> =>
        LET n == Len(sched.terminated_processes)
        IN  /\ IsMean(Reported.avg_waiting_time, TerminatedTotals.waiting, n)
            /\ IsMean(Reported.avg_turnaround_time, TerminatedTotals.turnaround, n)
            /\ IsMean(Reported.avg_response_time, TerminatedTotals.response, n)

\* C38: reading results is idempotent: every call of get_results(), a second
\* call after run() has returned or after update_statistics() has been
\* called included, reports avg_waiting_time, avg_turnaround_time and
\* avg_response_time equal to the arithmetic means of those values over the
\* terminated processes
C38_ResultsIdempotent == ReportsMeans

-----------------------------------------------------------------------------
(* Calls of execute_one_step() after it has returned True *)

\* a call of execute_one_step() made after a call has returned True
CallAfterTrue == pc = "stepping" /\ pc' = "stepping" /\ sched.returned /\ extra_calls' # extra_calls

\* such a call returns True again and changes nothing in the scheduler
LaterCallIsIdle == CallAfterTrue => sched'.returned /\ sched' = sched

\* C39: once execute_one_step() has returned True (all processes terminated,
\* or the tick guard exceeded), every further call returns True and leaves
\* the scheduler unchanged: current_time, queues, running slot, process
\* fields, Gantt chart, event log and statistics
C39_StepAfterCompletion == [][LaterCallIsIdle]_vars

-----------------------------------------------------------------------------
(* The CPU time counted *)

\* the CPU demand of all the processes of the scheduler
TotalCpuDemand ==
    SumSeq([i \in 1..Len(sched.processes) |-> get_total_burst_time(sched.processes[i])])

\* the run has ended with every process terminated: run() has returned, or
\* execute_one_step() has returned True, and not by the tick guard
EndedComplete ==
    /\ pc = "run_returned" \/ StepDone
    /\ is_simulation_complete(sched)
    /\ \A i \in 1..Len(sched.processes) : sched.processes[i].state = "Terminated"

\* C40: under each of the eight policies cpu_busy_time <= current_time at
\* every tick, and when a run ends with all processes terminated
\* cpu_busy_time equals the sum of the total CPU demand of all processes: no
\* CPU tick is counted twice and none is lost, for any overhead
C40_CpuBusyTime ==
    config.policy \in Policies =>
        /\ sched.stats.cpu_busy_time <= sched.current_time
        /\ EndedComplete => sched.stats.cpu_busy_time = TotalCpuDemand

\* a run with billed context switches has ended complete, the CPU having
\* been busy for less than the whole time
C40_Witness ==
    /\ config.policy \in Policies
    /\ EndedComplete
    /\ CONTEXT_SWITCH_OVERHEAD > 0
    /\ sched.stats.context_switches > 0
    /\ sched.stats.cpu_busy_time = TotalCpuDemand
    /\ sched.stats.cpu_busy_time < sched.current_time

=============================================================================
